---- MODULE Spec2Model ----
(***************************************************************************)
(* Model of the telemetry agent's collector (app/agent/telemetry.py):      *)
(* the static-fact cache, the five metric readers, the network rate        *)
(* sampler and collect_all_metrics, as they run on one asyncio event loop. *)
(*                                                                         *)
(* Numbers: Python floats that come out of a division are kept as exact    *)
(* fractions [num, den]; two fractions are the same number when their      *)
(* cross products agree (RatEq).  Formatted strings (f"...") are kept as   *)
(* the tuple of their pieces, in order.                                    *)
(***************************************************************************)
EXTENDS Integers, Sequences, FiniteSets, TLC

\* ---------------------------------------------------------------- bounds
MaxTime == 3
MaxNetCalls == 3
NumCallers == 2

\* Optional values: None is the empty tuple, a present value v is <<v>>.
None == <<>>
Some(v) == <<v>>
Get(o) == o[1]

\* The outcome of a step that may raise: the value, or the exception.
Ok(v) == [raised |-> FALSE, val |-> v]
Raised == [raised |-> TRUE, val |-> None]
\* An exception of the server's modules, with the text str(e) gives, and the
\* call that ends with it.
Exc(type, text) == [type |-> type, text |-> text]
Raise(e) == [raised |-> TRUE, val |-> e]

\* ------------------------------------------------------------- fractions
Rat(n, d) == [num |-> n, den |-> d]
RatEq(a, b) == a.num * b.den = b.num * a.den
\* The float literal 0.0.
Zero == Rat(0, 1)

\* ------------------------------------------------------------- variables
VARIABLES
  now,                     \* what time.time() returns
  \* the collector object
  previous_network_stats,  \* self.previous_network_stats: name -> counters
  previous_time,           \* self.previous_time
  static_cache,            \* self._static_cache
  \* the event loop and the coroutines on it
  ready,                   \* the loop's queue of callbacks, oldest first
  pc,                      \* per caller: where its request stands
  request,                 \* per caller: the operation it asked for
  timestamp,               \* per caller: the local timestamp of collect_all_metrics
  task,                    \* per caller and reader: the task created for it
  awaited,                 \* per caller: index of the task its await is parked on
  response,                \* per caller: what the operation returned
  \* observations, for stating the properties
  calls,                   \* resolver -> times _cache_static_data invoked it
  seen,                    \* the host as the one full _cache_static_data run saw it
  ensured,                 \* an _ensure_cache_initialized call has returned
  raced,                   \* the first such call ran while another was scheduled
  reader_runs,             \* per caller and reader: invocations in this request
  returned,                \* per caller and reader: what the invocation returned
  all_runs,                \* per caller: collect_all_metrics invocations in this request
  net_stats,               \* psutil.net_io_counters(pernic=True) as last read
  net_result,              \* the list the last collect_network_metrics returned
  net_call_time,           \* when collect_network_metrics last ran (None: never)
  stored_at,               \* history: per interface, when its stored counters were written
  netCalls,                \* number of collect_network_metrics calls so far
  gpu_probe,               \* the last collect_gpu_metrics call made on its own
  mem_probe,               \* the last collect_memory_metrics call made on its own
  cpu_probe,               \* the last collect_cpu_metrics call made on its own
  sys_probe,               \* the last collect_system_metrics call made on its own
  \* the agent's HTTP application (api.py)
  collector_instance,      \* the module global collector_instance
  created,                 \* number of collectors created so far
  api_ready,               \* requests to /graphql whose get_context is scheduled
  api_pc,                  \* per request: where it stands
  got,                     \* per request: what get_collector returned
  \* the server's polling task (tasks.py)
  poll,                    \* the last poll_agent_telemetry run: the agent, the result
  \* the server's telemetry endpoint (views.py)
  view,                    \* the last receive_telemetry run: the payload, the response
  \* the server's query loader (graphql_queries.py)
  queries_dir,             \* whether QUERIES_DIR exists
  dir_order,               \* the order in which QUERIES_DIR lists its entries
  query_files,             \* the .graphql files of QUERIES_DIR, by stem
  _QUERIES_CACHE,          \* the module global _QUERIES_CACHE
  lookup,                  \* the last get_query call: the argument, the outcome
  loaded,                  \* history: the directory as the last load found it
  reloads,                 \* number of reload_queries calls so far
  \* console mode (main.py)
  console_pc,              \* "off", "loop" (top of the while body), "sleep", "stopped"
  iterations,              \* loop iterations started
  errors_logged,                  \* "Error collecting telemetry" records written
  displayed,               \* snapshots displayed
  stop_signal              \* the signal that ended the loop, or "none"

samplerVars == <<previous_network_stats, previous_time>>
netObs == <<net_stats, net_result, net_call_time, stored_at, netCalls>>
loopVars == <<ready, pc, request, timestamp, task, awaited, response>>
readerObs == <<reader_runs, returned, all_runs>>
cacheObs == <<calls, seen, ensured, raced>>
probeObs == <<gpu_probe, mem_probe, cpu_probe, sys_probe>>
collectorVars ==
  <<now, samplerVars, static_cache, loopVars, readerObs, cacheObs, netObs, probeObs>>
apiVars == <<collector_instance, created, api_ready, api_pc, got>>
loaderVars == <<queries_dir, dir_order, query_files, _QUERIES_CACHE, lookup, loaded, reloads>>
consoleVars == <<console_pc, iterations, errors_logged, displayed, stop_signal>>
serviceVars == <<apiVars, poll, view, loaderVars, consoleVars>>
vars == <<collectorVars, serviceVars>>

\* ------------------------------------------------------- files and text
\* What open()/read() of a file gives: st = "ok" and the stripped text, or
\* the exception raised.  OSError stands for an OSError that is neither a
\* FileNotFoundError nor a PermissionError (EIO, EINVAL, ...).
FileErrors == {"FileNotFoundError", "PermissionError", "OSError"}
TextFile(st, text) == [st |-> st, text |-> text]
\* A file holding a number: parses = FALSE when int()/float() of the text
\* raises ValueError.
NumFile(st, parses, val) == [st |-> st, parses |-> parses, val |-> val]
MissingNum == NumFile("FileNotFoundError", FALSE, 0)

\* A Python str is kept as the sequence of its pieces; Str(s) is a literal.
Str(s) == <<s>>
EmptyStr == <<>>

\* ----------------------------------------------------- vendor/device catalog
AMD == "0x1002"
NVIDIA == "0x10de"
INTEL == "0x8086"

AMD_DEVICES ==
  [d \in {"0x164e", "0x164d", "0x164c", "0x15dd", "0x15dc", "0x15db",
          "0x1638", "0x163f", "0x1681", "0x1679"} |->
     CASE d = "0x164e" -> "Radeon RX 7900 XTX"
       [] d = "0x164d" -> "Radeon RX 7900 XT"
       [] d = "0x164c" -> "Radeon RX 7900 GRE"
       [] d = "0x15dd" -> "Radeon RX 6900 XT"
       [] d = "0x15dc" -> "Radeon RX 6800 XT"
       [] d = "0x15db" -> "Radeon RX 6800"
       [] d = "0x1638" -> "Radeon RX 6700 XT"
       [] d = "0x163f" -> "Radeon RX 6700"
       [] d = "0x1681" -> "Radeon RX 6600 XT"
       [] d = "0x1679" -> "Radeon RX 6600"]

NVIDIA_DEVICES ==
  [d \in {"0x2684", "0x2682", "0x2704", "0x2783", "0x2544", "0x220a",
          "0x2206", "0x2208", "0x2204"} |->
     CASE d = "0x2684" -> "GeForce RTX 4090"
       [] d = "0x2682" -> "GeForce RTX 4080"
       [] d = "0x2704" -> "GeForce RTX 4070 Ti"
       [] d = "0x2783" -> "GeForce RTX 4070"
       [] d = "0x2544" -> "GeForce RTX 3060"
       [] d = "0x220a" -> "GeForce RTX 3080"
       [] d = "0x2206" -> "GeForce RTX 3080 Ti"
       [] d = "0x2208" -> "GeForce RTX 3070 Ti"
       [] d = "0x2204" -> "GeForce RTX 3070"]

\* A get_name whose enumeration stops before INTEL.
GPUVendor_get_name_without_intel(vendor_id) ==
  CASE vendor_id = AMD -> Str("AMD")
    [] vendor_id = NVIDIA -> Str("NVIDIA")
    [] OTHER -> <<"Unknown Vendor (", vendor_id, ")">>

\* GPUVendor.get_name
GPUVendor_get_name(vendor_id) ==
  CASE vendor_id = AMD -> Str("AMD")
    [] vendor_id = NVIDIA -> Str("NVIDIA")
    [] vendor_id = INTEL -> Str("INTEL")
    [] OTHER -> <<"Unknown Vendor (", vendor_id, ")">>

UnknownGPU == Str("Unknown GPU")

\* The name for the two ids once read; an id is None when its file was
\* missing or unreadable (the inner try blocks of lines 428-438).
LookupGpuName(vendor_id, device_id) ==
  IF vendor_id # None /\ Get(vendor_id) # "" /\ device_id # None /\ Get(device_id) # ""
  THEN LET v == Get(vendor_id)
           d == Get(device_id)
       IN IF v = AMD /\ d \in DOMAIN AMD_DEVICES
          THEN <<"AMD", " ", AMD_DEVICES[d]>>
          ELSE IF v = NVIDIA /\ d \in DOMAIN NVIDIA_DEVICES
          THEN <<"NVIDIA", " ", NVIDIA_DEVICES[d]>>
          ELSE GPUVendor_get_name(v) \o <<" GPU (Device: ", d, ")">>
  ELSE UnknownGPU

\* with open(...) as f: id = f.read().strip(), inside
\* try/except (FileNotFoundError, PermissionError): pass
ReadId(file) == IF file.st = "ok" THEN Some(file.text) ELSE None

\* _get_gpu_name_from_device_ids: any other exception of a read reaches the
\* outer except.
_get_gpu_name_from_device_ids(vendor_file, device_file) ==
  IF vendor_file.st = "OSError" THEN UnknownGPU
  ELSE IF device_file.st = "OSError" THEN UnknownGPU
  ELSE LookupGpuName(ReadId(vendor_file), ReadId(device_file))

DefaultVram == 24560
MiB == 1024 * 1024

\* _get_gpu_total_vram
_get_gpu_total_vram(file) ==
  IF file.st = "ok" /\ file.parses THEN file.val \div MiB ELSE DefaultVram

\* --------------------------------------------------- static fact resolvers
UnknownCPU == Str("Unknown CPU")
UnkownCPU == Str("Unkown CPU")
NoisySuffix == " 8-Core Processor"
StripSuffix(name) == SelectSeq(name, LAMBDA piece : piece # NoisySuffix)

\* _get_cpu_name_static.  cpuinfo.model_line says what the first line that
\* starts with "model name" looks like: "absent" (no such line), "nocolon"
\* (split(":", 1)[1] raises IndexError) or "present", with the text after
\* the colon in cpuinfo.name.
_get_cpu_name_static(cpuinfo) ==
  IF cpuinfo.st # "ok" THEN UnkownCPU
  ELSE IF cpuinfo.model_line = "present" THEN StripSuffix(cpuinfo.name)
  ELSE IF cpuinfo.model_line = "absent" THEN UnknownCPU
  ELSE UnkownCPU

\* str.strip() on a piece sequence: leading and trailing blanks go.
Blank == {" ", "\n"}
RECURSIVE LStrip(_)
LStrip(t) == IF t # <<>> /\ Head(t) \in Blank THEN LStrip(Tail(t)) ELSE t
RECURSIVE RStrip(_)
RStrip(t) ==
  IF t # <<>> /\ t[Len(t)] \in Blank THEN RStrip(SubSeq(t, 1, Len(t) - 1)) ELSE t
Strip(t) == RStrip(LStrip(t))

UnknownOS == Str("Unknown OS")
OsSentinel == Str("Exception: OS subprocess command did not execute properly")

\* _get_os_name.  lsb.st is how subprocess.run(["lsb_release", "-d"]) ended:
\* "exit" (with lsb.returncode and lsb.stdout, the list of its tab-separated
\* fields), "TimeoutExpired", or "FileNotFoundError" (no such program).
_get_os_name(lsb) ==
  IF lsb.st = "TimeoutExpired" THEN Ok(OsSentinel)
  ELSE IF lsb.st # "exit" THEN Raised
  ELSE IF lsb.returncode = 0
       THEN IF Len(lsb.stdout) >= 2 THEN Ok(Strip(lsb.stdout[2]))
            ELSE Raised                    \* IndexError
       ELSE Ok(UnknownOS)

\* -------------------------------------------------------------- static cache
CacheKeys ==
  {"cpu_name", "cpu_core_count", "gpu_name", "gpu_total_vram", "total_ram",
   "total_disk", "hostname", "os_name", "kernel_version", "boot_time"}
EmptyCache == [k \in CacheKeys |-> None]

\* A guard that looks at the OS name instead of the CPU name.
NeedsInit_os_name(cache) == cache.os_name = None

\* The guard of _ensure_cache_initialized (line 171).
NeedsInit(cache) == cache.cpu_name = None

\* _cache_static_data, block by block.  Each block gives the cache as it
\* leaves it, the resolvers it invoked, and whether it raised; the blocks
\* run in order inside one try, so a block that raises ends the method.
Block(cache, invoked, raised) == [cache |-> cache, invoked |-> invoked, raised |-> raised]

CpuBlock(cache, host) ==
  Block([cache EXCEPT !.cpu_name = Some(_get_cpu_name_static(host.cpuinfo)),
                      !.cpu_core_count = host.cpu_count],
        {"cpu_name", "cpu_count"}, FALSE)

GpuBlock(cache, host) ==
  Block([cache EXCEPT
           !.gpu_name = Some(_get_gpu_name_from_device_ids(host.vendor, host.device)),
           !.gpu_total_vram = Some(_get_gpu_total_vram(host.vram_total))],
        {"gpu_name", "gpu_total_vram"}, FALSE)

MemoryBlock(cache, host) ==
  IF host.vm.raises THEN Block(cache, {"virtual_memory"}, TRUE)
  ELSE IF host.disk.raises THEN Block(cache, {"virtual_memory", "disk_usage"}, TRUE)
  ELSE Block([cache EXCEPT !.total_ram = Some(host.vm.total),
                           !.total_disk = Some(host.disk.total)],
             {"virtual_memory", "disk_usage"}, FALSE)

SystemBlock(cache, host) ==
  LET c1 == [cache EXCEPT !.hostname = Some(host.nodename)]
      os == _get_os_name(host.lsb)
  IN IF os.raised THEN Block(c1, {"os_name"}, TRUE)
     ELSE LET c2 == [c1 EXCEPT !.os_name = Some(os.val),
                               !.kernel_version = Some(host.release)]
          IN IF host.boot.raises THEN Block(c2, {"os_name", "boot_time"}, TRUE)
             ELSE Block([c2 EXCEPT !.boot_time = Some(host.boot.val)],
                        {"os_name", "boot_time"}, FALSE)

\* b, then the block `next` unless b raised.
Then(b, next) ==
  IF b.raised THEN b
  ELSE Block(next.cache, b.invoked \cup next.invoked, next.raised)

_cache_static_data(cache, host) ==
  LET b1 == CpuBlock(cache, host)
      b2 == Then(b1, GpuBlock(b1.cache, host))
      b3 == Then(b2, MemoryBlock(b2.cache, host))
      b4 == Then(b3, SystemBlock(b3.cache, host))
  IN b4

\* An initialization without the guard.
_ensure_cache_initialized_unguarded(cache, host) == _cache_static_data(cache, host)

\* _ensure_cache_initialized
_ensure_cache_initialized(cache, host) ==
  IF NeedsInit(cache) THEN _cache_static_data(cache, host)
  ELSE Block(cache, {}, FALSE)

\* --------------------------------------------------------------- GPU reader
\* The plausible range of a sensor reading, degrees Celsius.
MinCelsius == 0
MaxCelsius == 120
InRange(millideg) == MinCelsius * 1000 <= millideg /\ millideg <= MaxCelsius * 1000

\* The temperature loop of _get_amdgpu_metrics (lines 471-480): the first
\* file that reads, parses and is in range.
RECURSIVE GpuTempProbe(_)
GpuTempProbe(files) ==
  IF files = <<>> THEN Ok(None)
  ELSE LET f == Head(files)
       IN IF f.st = "OSError" THEN Raised
          ELSE IF f.st = "ok" /\ f.parses /\ InRange(f.val)
          THEN Ok(Some(Rat(f.val, 1000)))
          ELSE GpuTempProbe(Tail(files))

\* gpu_busy_percent (lines 483-487)
GpuUsage(f) ==
  IF f.st = "OSError" THEN Raised
  ELSE IF f.st = "ok" /\ f.parses THEN Ok(Some(f.val)) ELSE Ok(None)

\* mem_info_vram_used (lines 490-495)
GpuVramUsed(f) ==
  IF f.st = "OSError" THEN Raised
  ELSE IF f.st = "ok" /\ f.parses THEN Ok(Some(f.val \div MiB)) ELSE Ok(None)

\* The fan loop (lines 504-510): the first file that reads and parses.
RECURSIVE GpuFanProbe(_)
GpuFanProbe(files) ==
  IF files = <<>> THEN Ok(None)
  ELSE LET f == Head(files)
       IN IF f.st = "OSError" THEN Raised
          ELSE IF f.st = "ok" /\ f.parses THEN Ok(Some(f.val))
          ELSE GpuFanProbe(Tail(files))

\* pp_dpm_sclk (lines 513-521).  A line is the list of its tokens
\* (line.split()); "*" in line holds when one of them is the marker.
IsActiveLine(line) == \E i \in 1..Len(line) : line[i] = "*"
RECURSIVE ActiveClock(_)
ActiveClock(lines) ==
  IF lines = <<>> THEN Ok(None)
  ELSE IF IsActiveLine(Head(lines))
       THEN IF Len(Head(lines)) >= 2 THEN Ok(Some(Head(lines)[2]))
            ELSE Raised      \* IndexError: not among the caught exceptions
       ELSE ActiveClock(Tail(lines))

GpuClock(f) ==
  IF f.st = "OSError" THEN Raised
  ELSE IF f.st = "ok" THEN ActiveClock(f.lines) ELSE Ok(None)

\* _get_amdgpu_metrics: the dict of the fields that could be read (a key
\* that was not set reads as None), or None when it is empty or when an
\* exception reached the outer except.
_get_amdgpu_metrics(hw) ==
  LET t == GpuTempProbe(hw.temp)
      u == GpuUsage(hw.busy)
      v == GpuVramUsed(hw.vram_used)
      f == GpuFanProbe(hw.fan)
      c == GpuClock(hw.sclk)
      gpu_data == [temperature |-> t.val, usage |-> u.val, vram_used |-> v.val,
                   fan_speed |-> f.val, clock_speed |-> c.val]
  IN IF t.raised \/ u.raised \/ v.raised \/ f.raised \/ c.raised THEN None
     ELSE IF \A k \in DOMAIN gpu_data : gpu_data[k] = None THEN None
     ELSE Some(gpu_data)

\* `x or default` for an optional number.
OrNum(x, default) == IF x # None /\ Get(x) # 0 THEN Get(x) ELSE default

\* collect_gpu_metrics: None, or the GPUMetrics value.  name is what the
\* cache holds under "gpu_name" (the key always exists, so the default of
\* .get is never used).
collect_gpu_metrics(cache, hw) ==
  LET gpu_name == cache.gpu_name
      total_vram == OrNum(cache.gpu_total_vram, DefaultVram)
      gpu_data == _get_amdgpu_metrics(hw)
  IN IF gpu_data # None
     THEN Some([name |-> gpu_name,
                temperature |-> Get(gpu_data).temperature,
                usage_percent |-> Get(gpu_data).usage,
                memory_used |-> Get(gpu_data).vram_used,
                memory_total |-> Some(total_vram),
                fan_speed |-> Get(gpu_data).fan_speed,
                clock_speed |-> Get(gpu_data).clock_speed])
     ELSE None

\* --------------------------------------------------------------- CPU reader
\* `x or default` for an optional str.
OrStr_always_default(x, default) == default
OrStr(x, default) == IF x # None /\ Get(x) # EmptyStr THEN Get(x) ELSE default

\* _get_cpu_temperature: the candidate files in list order; an OSError
\* reaches the outer except, which gives None.
RECURSIVE _get_cpu_temperature(_)
_get_cpu_temperature(files) ==
  IF files = <<>> THEN None
  ELSE LET f == Head(files)
       IN IF f.st = "OSError" THEN None
          ELSE IF f.st = "ok" /\ f.parses /\ InRange(f.val)
          THEN Some(Rat(f.val, 1000))
          ELSE _get_cpu_temperature(Tail(files))

\* An except branch that names the CPU as the name resolver does.
DefaultCPUMetrics_unknown_cpu ==
  [name |-> Str("Unknown CPU"), temperature |-> None, usage_percent |-> 0,
   core_usage |-> <<>>, frequency |-> 0]

DefaultCPUMetrics ==
  [name |-> Str("Unknown"), temperature |-> None, usage_percent |-> 0,
   core_usage |-> <<>>, frequency |-> 0]

\* collect_cpu_metrics.  os.psutil_raises: psutil.cpu_percent or
\* psutil.cpu_freq raises; os.freq is None when cpu_freq() returns None.
collect_cpu_metrics(cache, os) ==
  IF os.psutil_raises THEN DefaultCPUMetrics
  ELSE [name |-> OrStr(cache.cpu_name, _get_cpu_name_static(os.cpuinfo)),
        temperature |-> _get_cpu_temperature(os.sensors),
        usage_percent |-> os.percent,
        core_usage |-> os.percpu,
        frequency |-> IF os.freq # None THEN Get(os.freq) ELSE 0]

\* ------------------------------------------------------------ memory reader
\* (a / b) * 100
Percent(a, b) == Rat(a * 100, b)

\* collect_memory_metrics.  vm is psutil.virtual_memory(), disk is
\* psutil.disk_usage("/"); either call raising, or a zero total_disk
\* (ZeroDivisionError), ends the reader with the exception.
collect_memory_metrics(cache, vm, disk) ==
  IF vm.raises \/ disk.raises THEN Raised
  ELSE LET total_ram == OrNum(cache.total_ram, vm.total)
           total_disk == OrNum(cache.total_disk, disk.total)
       IN IF total_disk = 0 THEN Raised
          ELSE Ok([ram_used |-> vm.used,
                   ram_total |-> total_ram,
                   ram_percent |-> vm.percent,
                   disk_used |-> disk.used,
                   disk_total |-> total_disk,
                   disk_percent |-> Percent(disk.used, total_disk)])

\* ------------------------------------------------------------ system reader
\* int(x) of a fraction: truncation toward zero.
IntOf(r) == IF r.num >= 0 THEN r.num \div r.den ELSE -((-r.num) \div r.den)
\* a - b for a whole number a and a fraction b.
MinusRat(a, b) == Rat(a * b.den - b.num, b.den)

\* collect_system_metrics.  The keyword arguments are evaluated in order;
\* _get_os_name and psutil.boot_time are called only where the cache has
\* nothing, os.getlogin on every call.
collect_system_metrics(cache, os, time) ==
  LET os_name == IF cache.os_name # None /\ Get(cache.os_name) # EmptyStr
                 THEN Ok(Get(cache.os_name)) ELSE _get_os_name(os.lsb)
      cached_boot == cache.boot_time # None /\ Get(cache.boot_time).num # 0
      boot_time == IF cached_boot THEN Get(cache.boot_time) ELSE os.boot.val
  IN IF os_name.raised THEN Raised
     ELSE IF ~cached_boot /\ os.boot.raises THEN Raised
     ELSE IF os.getlogin.raised THEN Raised
     ELSE Ok([hostname |-> OrStr(cache.hostname, os.nodename),
              os_name |-> os_name.val,
              kernel_version |-> OrStr(cache.kernel_version, os.release),
              uptime_seconds |-> IntOf(MinusRat(time, boot_time)),
              user |-> os.getlogin.val,
              boot_time |-> boot_time])

\* ------------------------------------------------------------ network reader
Loopback == "lo"
IfNames == {"lo", "eth0", "wlan0"}
\* Sample readings of a cumulative byte counter (it can also fall: a reset).
ByteCounts == {1000, 4000}

\* One entry of psutil.net_io_counters(pernic=True): the dict key and its
\* counters.  Packet counters are carried through unchanged by the reader.
NicStats ==
  [name : IfNames, bytes_sent : ByteCounts, bytes_recv : ByteCounts,
   packets_sent : {5}, packets_recv : {8}]

\* The dict psutil returns, as the sequence of its items in iteration order:
\* every key occurs once.  The kernel lists the loopback device first.
RECURSIVE SeqsNoDup(_, _)
SeqsNoDup(S, n) ==
  IF n = 0 THEN {<<>>}
  ELSE LET shorter == SeqsNoDup(S, n - 1)
       IN shorter \cup
          {Append(s, x) : s \in {t \in shorter : Len(t) = n - 1},
                          x \in S}

NamesOf(items) == {items[i].name : i \in 1..Len(items)}
NetIoCounters ==
  {s \in SeqsNoDup(NicStats, Cardinality(IfNames)) :
     /\ \A i, j \in 1..Len(s) : i # j => s[i].name # s[j].name
     /\ \A i \in 1..Len(s) : s[i].name = Loopback =>
          i = 1 /\ s[i].bytes_sent = 1000 /\ s[i].bytes_recv = 1000}

\* psutil.net_if_addrs(): name -> list of addresses, or the call raising.
AF_INET == 2

AddrTable ==
  [n \in {"eth0", "wlan0"} |->
     IF n = "eth0"
     THEN <<[family |-> 10, address |-> "fe80::1"],
            [family |-> AF_INET, address |-> "192.168.1.100"]>>
     ELSE <<[family |-> 10, address |-> "fe80::2"]>>]
NetIfAddrs == {[raises |-> FALSE, table |-> AddrTable]}

RECURSIVE FirstIPv4(_)
FirstIPv4(addrs) ==
  IF addrs = <<>> THEN None
  ELSE IF Head(addrs).family = AF_INET THEN Some(Head(addrs).address)
  ELSE FirstIPv4(Tail(addrs))

_get_interface_ip(interface_name, addresses) ==
  IF addresses.raises THEN None
  ELSE IF interface_name \in DOMAIN addresses.table
       THEN FirstIPv4(addresses.table[interface_name])
       ELSE None

\* The guard of the rate computation (telemetry.py line 297).
RateComputed(interface_name, prev, time_delta) ==
  interface_name \in DOMAIN prev /\ time_delta > 0

speed_upload(stats, prev, time_delta) ==
  IF RateComputed(stats.name, prev, time_delta)
  THEN Rat(stats.bytes_sent - prev[stats.name].bytes_sent, time_delta)
  ELSE Zero

\* A slip: the download rate taken from the sent counter.
speed_download_from_sent(stats, prev, time_delta) ==
  IF RateComputed(stats.name, prev, time_delta)
  THEN Rat(stats.bytes_sent - prev[stats.name].bytes_sent, time_delta)
  ELSE Zero

speed_download(stats, prev, time_delta) ==
  IF RateComputed(stats.name, prev, time_delta)
  THEN Rat(stats.bytes_recv - prev[stats.name].bytes_recv, time_delta)
  ELSE Zero

NetworkMetrics(stats, prev, time_delta, addresses) ==
  [interface |-> stats.name,
   ip_address |-> _get_interface_ip(stats.name, addresses),
   bytes_sent |-> stats.bytes_sent,
   bytes_received |-> stats.bytes_recv,
   packets_sent |-> stats.packets_sent,
   packets_received |-> stats.packets_recv,
   speed_upload |-> speed_upload(stats, prev, time_delta),
   speed_download |-> speed_download(stats, prev, time_delta)]

\* self.previous_network_stats[interface_name] = {...}
StoreStats_first_sample_only(prev, stats) ==
  [n \in DOMAIN prev \cup {stats.name} |->
     IF n \in DOMAIN prev THEN prev[n]
     ELSE [bytes_sent |-> stats.bytes_sent, bytes_recv |-> stats.bytes_recv]]
StoreStats(prev, stats) ==
  [n \in DOMAIN prev \cup {stats.name} |->
     IF n = stats.name
     THEN [bytes_sent |-> stats.bytes_sent, bytes_recv |-> stats.bytes_recv]
     ELSE prev[n]]

\* A slip: the loopback test dropped.
SkipInterface_never(interface_name) == FALSE

SkipInterface(interface_name) == interface_name = Loopback

\* The for loop of collect_network_metrics over the items still to visit:
\* the list built so far and the sampler map as the loop leaves them.
RECURSIVE NetLoop(_, _, _, _, _)
NetLoop(items, out, prev, time_delta, addresses) ==
  IF items = <<>> THEN [out |-> out, prev |-> prev]
  ELSE LET stats == Head(items)
       IN IF SkipInterface(stats.name)
          THEN NetLoop(Tail(items), out, prev, time_delta, addresses)
          ELSE NetLoop(Tail(items),
                       Append(out, NetworkMetrics(stats, prev, time_delta, addresses)),
                       StoreStats(prev, stats), time_delta, addresses)

\* collect_network_metrics with nothing going wrong inside psutil: the list
\* returned and the sampler as the call leaves it.
collect_network_metrics(prev, prev_time, current_time, io, addresses) ==
  LET time_delta == current_time - prev_time
      r == NetLoop(io, <<>>, prev, time_delta, addresses)
  IN [out |-> r.out, stats |-> r.prev, time |-> current_time]

NoStats == [n \in {} |-> [bytes_sent |-> 0, bytes_recv |-> 0]]

\* The interfaces whose counters a call over io stores (lines 303-306).
Written(io) == {n \in NamesOf(io) : ~SkipInterface(n)}

\* One whole call as a step: the coroutine has no suspension point, so it
\* runs from its first line to its return in one callback of the loop.
NetworkCall(io, addresses) ==
  LET r == collect_network_metrics(previous_network_stats, previous_time, now,
                                   io, addresses)
  IN /\ previous_network_stats' = r.stats
     /\ previous_time' = r.time
     /\ net_stats' = io
     /\ net_result' = r.out
     /\ net_call_time' = Some(now)
     /\ stored_at' = [n \in DOMAIN r.stats |->
                        IF n \in Written(io) THEN now ELSE stored_at[n]]
     /\ netCalls' = netCalls + 1

\* ------------------------------------------------------------------ clock
Tick == now < MaxTime /\ now' = now + 1

\* ----------------------------------------------------------- the collector
Callers == 1..NumCallers
Readers == <<"cpu", "gpu", "memory", "network", "system">>
ReaderSet == {Readers[i] : i \in 1..Len(Readers)}
Resolvers ==
  {"cpu_name", "cpu_count", "gpu_name", "gpu_total_vram", "virtual_memory",
   "disk_usage", "os_name", "boot_time"}
NoTask == [st |-> "none", val |-> None]

\* TelemetryCollector.__init__, on an idle loop.
NewCollector ==
  /\ previous_network_stats = NoStats
  /\ previous_time = now
  /\ static_cache = EmptyCache
  /\ ready = <<>>
  /\ pc = [c \in Callers |-> "idle"]
  /\ request = [c \in Callers |-> "none"]
  /\ timestamp = [c \in Callers |-> 0]
  /\ task = [c \in Callers |-> [r \in ReaderSet |-> NoTask]]
  /\ response = [c \in Callers |-> None]
  /\ awaited = [c \in Callers |-> 0]
  /\ reader_runs = [c \in Callers |-> [r \in ReaderSet |-> 0]]
  /\ returned = [c \in Callers |-> [r \in ReaderSet |-> None]]
  /\ all_runs = [c \in Callers |-> 0]
  /\ calls = [r \in Resolvers |-> 0]
  /\ seen = None
  /\ ensured = FALSE
  /\ raced = FALSE
  /\ net_stats = <<>>
  /\ net_result = <<>>
  /\ net_call_time = None
  /\ stored_at = [n \in {} |-> 0]
  /\ netCalls = 0
  /\ gpu_probe = None
  /\ mem_probe = None
  /\ cpu_probe = None
  /\ sys_probe = None

\* The other modules of the process as they are once imported.
NumRequests == 4
Requests == 1..NumRequests
AppIdle ==
  /\ collector_instance = None
  /\ created = 0
  /\ api_ready = <<>>
  /\ api_pc = [q \in Requests |-> "idle"]
  /\ got = [q \in Requests |-> None]
  /\ poll = None
  /\ view = None

\* The query loader once imported (graphql_queries.py).
QUERY_TYPES ==
  [t \in {"basic", "extended", "health"} |->
     CASE t = "basic" -> "telemetry_basic"
       [] t = "extended" -> "telemetry_extended"
       [] t = "health" -> "health_check"]
\* The stems of the .graphql files a queries directory may hold.
Stems == {QUERY_TYPES[t] : t \in DOMAIN QUERY_TYPES}
EmptyQueries == [f \in Stems |-> None]
NoFile == TextFile("FileNotFoundError", EmptyStr)

\* load_query_file: the stripped text, FileNotFoundError when the file does
\* not exist, IOError for an OSError of open()/read(); any other exception
\* of the read (a file that is not UTF-8) passes through.
load_query_file(files, filename) ==
  LET file == files[filename]
  IN IF file.st = "FileNotFoundError"
     THEN Raise(Exc("FileNotFoundError", <<"Query file not found: ", filename, ".graphql">>))
     ELSE IF file.st = "ok" THEN Ok(Strip(file.text))
     ELSE IF file.st \in FileErrors
     THEN Raise(Exc("IOError", <<"Cannot read query file ", filename, ".graphql">>))
     ELSE Raise(Exc(file.st, <<"cannot decode ", filename, ".graphql">>))

\* _load_all_queries from the i-th file of the glob on: a file that loads is
\* stored, one that raises FileNotFoundError or IOError is passed over, and
\* any other exception ends the loop with what was stored so far.
RECURSIVE LoadFrom(_, _, _)
LoadFrom(glob, files, cache) ==
  IF glob = <<>> THEN [raised |-> FALSE, cache |-> cache]
  ELSE LET query_name == Head(glob)
           text == load_query_file(files, query_name)
       IN IF ~text.raised
          THEN LoadFrom(Tail(glob), files, [cache EXCEPT ![query_name] = Some(text.val)])
          ELSE IF text.val.type \in {"FileNotFoundError", "IOError"}
          THEN LoadFrom(Tail(glob), files, cache)
          ELSE [raised |-> TRUE, cache |-> cache]

\* QUERIES_DIR.glob("*.graphql"): the files that exist, in the order the
\* directory lists them.
Glob(order, files) == SelectSeq(order, LAMBDA f : files[f].st # "FileNotFoundError")

\* _load_all_queries: whether it raised, and the cache it leaves.
_load_all_queries(dir, order, files, cache) ==
  IF ~dir THEN [raised |-> TRUE, cache |-> cache]
  ELSE LoadFrom(Glob(order, files), files, cache)

\* get_query
get_query_unknown_as_basic(cache, query_type) ==
  LET file_name == IF query_type \in DOMAIN QUERY_TYPES
                   THEN QUERY_TYPES[query_type]
                   ELSE QUERY_TYPES["basic"]
  IN IF cache[file_name] = None
     THEN Raise(Exc("FileNotFoundError",
                    <<"Query '", query_type, "' not loaded from ", file_name, ".graphql">>))
     ELSE Ok(Get(cache[file_name]))
get_query(cache, query_type) ==
  IF query_type \notin DOMAIN QUERY_TYPES
  THEN Raise(Exc("ValueError",
                 <<"Unknown query type '", query_type, "'. Available: ",
                   "basic", ", ", "extended", ", ", "health">>))
  ELSE LET file_name == QUERY_TYPES[query_type]
       IN IF cache[file_name] = None
          THEN Raise(Exc("FileNotFoundError",
                         <<"Query '", query_type, "' not loaded from ", file_name, ".graphql">>))
          ELSE Ok(Get(cache[file_name]))

\* The module after its import from a directory: line 58 has loaded the
\* cache, and nothing has been looked up.
Imported(dir, order, files) ==
  /\ queries_dir = dir
  /\ dir_order = order
  /\ query_files = files
  /\ ~_load_all_queries(dir, order, files, EmptyQueries).raised
  /\ _QUERIES_CACHE = _load_all_queries(dir, order, files, EmptyQueries).cache
  /\ lookup = None
  /\ loaded = [dir |-> dir, order |-> order, files |-> files]
  /\ reloads = 0

\* The directory as installed: the three query files.
QueryText(f) == <<"query ", f, " { ... }", "\n">>
InstalledQueries == [f \in Stems |-> TextFile("ok", QueryText(f))]

InstalledOrder == <<"health_check", "telemetry_basic", "telemetry_extended">>

ConsoleOff ==
  /\ console_pc = "off"
  /\ iterations = 0
  /\ errors_logged = 0
  /\ displayed = 0
  /\ stop_signal = "none"
ServiceIdle == AppIdle /\ Imported(TRUE, InstalledOrder, InstalledQueries) /\ ConsoleOff

\* ------------------------------------------------------------ environments
\* What the host can show the collector at a read.  The sets used by the
\* event-loop specification are small; the per-reader specifications below
\* draw from wider ones.
RyzenLine == <<"AMD Ryzen 7 7800X3D", NoisySuffix>>
CpuInfoRyzen == [st |-> "ok", model_line |-> "present", name |-> RyzenLine]
CpuInfoDenied == [st |-> "PermissionError", model_line |-> "absent", name |-> EmptyStr]
LsbUbuntu ==
  [st |-> "exit", returncode |-> 0,
   stdout |-> <<Str("Description:"), <<"Ubuntu 22.04", "\n">>>>]
LsbNotInstalled == [st |-> "FileNotFoundError", returncode |-> 0, stdout |-> <<>>]
BootOk == [raises |-> FALSE, val |-> Rat(1, 2)]

\* psutil.virtual_memory(): percent is psutil's own figure,
\* (total - available) / total * 100, not a function of used.
VirtualMemory(total, available, used) ==
  [raises |-> FALSE, total |-> total, available |-> available, used |-> used,
   percent |-> Percent(total - available, total)]
VmRaises ==
  [raises |-> TRUE, total |-> 0, available |-> 0, used |-> 0, percent |-> Zero]
DiskUsage(total, used) == [raises |-> FALSE, total |-> total, used |-> used]
DiskRaises == [raises |-> TRUE, total |-> 0, used |-> 0]

StaticHosts ==
  [cpuinfo : {CpuInfoRyzen, CpuInfoDenied},
   cpu_count : {Some(16)},
   vendor : {TextFile("ok", AMD)},
   device : {TextFile("ok", "0x164e")},
   vram_total : {MissingNum},
   vm : {VirtualMemory(8, 4, 4)},
   disk : {DiskUsage(8, 4)},
   nodename : {Str("host-a")},
   release : {Str("6.8.0")},
   lsb : {LsbUbuntu, LsbNotInstalled},
   boot : {BootOk}]

NoSensors == <<MissingNum, MissingNum, MissingNum, MissingNum, MissingNum>>
CpuEnvs ==
  [psutil_raises : {FALSE}, cpuinfo : {CpuInfoRyzen}, sensors : {NoSensors},
   percent : {25}, percpu : {<<20, 30>>}, freq : {Some(3400)}]

SclkMissing == [st |-> "FileNotFoundError", lines |-> <<>>]
SclkActive ==
  [st |-> "ok", lines |-> <<<<"0:", "500Mhz">>, <<"1:", "2100Mhz", "*">>>>]
NoGpuFiles ==
  [temp |-> <<MissingNum, MissingNum, MissingNum>>, busy |-> MissingNum,
   vram_used |-> MissingNum, fan |-> <<MissingNum, MissingNum, MissingNum>>,
   sclk |-> SclkMissing]
AmdGpuFiles ==
  [temp |-> <<NumFile("ok", TRUE, 65000), MissingNum, MissingNum>>,
   busy |-> NumFile("ok", TRUE, 80),
   vram_used |-> NumFile("ok", TRUE, 1024 * MiB),
   fan |-> <<NumFile("ok", TRUE, 1500), MissingNum, MissingNum>>,
   sclk |-> SclkActive]
GpuEnvs == {NoGpuFiles, AmdGpuFiles}

MemEnvs == [vm : {VirtualMemory(8, 4, 4)}, disk : {DiskUsage(8, 4), DiskRaises}]

LoginOk == Ok(Str("alice"))
SysEnvs ==
  [lsb : {LsbUbuntu}, boot : {BootOk}, nodename : {Str("host-a")},
   release : {Str("6.8.0")}, getlogin : {LoginOk, Raised}]

Nic(name, sent, recv) ==
  [name |-> name, bytes_sent |-> sent, bytes_recv |-> recv,
   packets_sent |-> 5, packets_recv |-> 8]
NetEnvs ==
  [raises : BOOLEAN,
   io : {<<Nic("lo", 1000, 1000), Nic("eth0", 1000, 4000)>>},
   addresses : NetIfAddrs]

\* ------------------------------------------------------------ the event loop
\* asyncio runs one callback at a time, oldest first; a coroutine runs until
\* it awaits something that is not finished.  None of the collector's
\* coroutines awaits anything but the five tasks of collect_all_metrics, so
\* every other await in telemetry.py runs its callee inline.
Cb(kind, c, r) == [kind |-> kind, c |-> c, r |-> r]
Queries == ReaderSet \cup {"telemetry", "health", "ensure"}

\* The collector operation a request runs: the one call in the body of each
\* resolver of Query; health calls none.
ResolverOp_cpu_by_full_collection(q) ==
  CASE q \in {"telemetry", "cpu"} -> "collect_all_metrics"
    [] q \in ReaderSet \ {"cpu"} -> q
    [] q = "ensure" -> "_ensure_cache_initialized"
    [] OTHER -> "none"

ResolverOp(q) ==
  CASE q = "telemetry" -> "collect_all_metrics"
    [] q \in ReaderSet -> q
    [] q = "ensure" -> "_ensure_cache_initialized"
    [] OTHER -> "none"
Index(r) == CHOOSE i \in 1..Len(Readers) : Readers[i] = r

\* A request arrives: its coroutine is scheduled on the loop.
Submit(c, q) ==
  /\ pc[c] = "idle"
  /\ pc' = [pc EXCEPT ![c] = "scheduled"]
  /\ request' = [request EXCEPT ![c] = q]
  /\ ready' = Append(ready, Cb("call", c, "-"))
  /\ UNCHANGED <<now, samplerVars, static_cache, timestamp, task, awaited,
                 response, readerObs, cacheObs, netObs, probeObs, serviceVars>>

\* Another request that initializes the cache is scheduled behind the one
\* now running.
OthersScheduled ==
  \E i \in 2..Len(ready) :
    ready[i].kind = "call" /\ request[ready[i].c] \in {"ensure", "telemetry"}

\* await self._ensure_cache_initialized()
Ensure_not_awaited(host) == UNCHANGED <<static_cache, calls, seen, ensured, raced>>
Ensure(host) ==
  LET b == _ensure_cache_initialized(static_cache, host)
  IN /\ static_cache' = b.cache
     /\ calls' = [r \in Resolvers |-> calls[r] + IF r \in b.invoked THEN 1 ELSE 0]
     /\ seen' = IF b.invoked # {} THEN Some(host) ELSE seen
     /\ ensured' = TRUE
     /\ raced' = (raced \/ (~ensured /\ OthersScheduled))

\* _ensure_cache_initialized called on its own.
EnsureCall(c) ==
  /\ ready # <<>> /\ Head(ready) = Cb("call", c, "-")
  /\ ResolverOp(request[c]) = "_ensure_cache_initialized"
  /\ \E host \in StaticHosts : Ensure(host)
  /\ ready' = Tail(ready)
  /\ pc' = [pc EXCEPT ![c] = "done"]
  /\ UNCHANGED <<now, samplerVars, request, timestamp, task, awaited, response,
                 readerObs, netObs, probeObs, serviceVars>>

\* collect_all_metrics up to its first suspension: the cache, the timestamp,
\* the five tasks in creation order, then await cpu_task parks it.
SpawnOrder == Readers
CollectAllStart(c) ==
  /\ ready # <<>> /\ Head(ready) = Cb("call", c, "-")
  /\ ResolverOp(request[c]) = "collect_all_metrics"
  /\ all_runs' = [all_runs EXCEPT ![c] = @ + 1]
  /\ \E host \in StaticHosts : Ensure(host)
  /\ timestamp' = [timestamp EXCEPT ![c] = now]
  /\ task' = [task EXCEPT ![c] = [r \in ReaderSet |-> [st |-> "pending", val |-> None]]]
  /\ ready' = Tail(ready) \o [i \in 1..Len(SpawnOrder) |-> Cb("reader", c, SpawnOrder[i])]
  /\ awaited' = [awaited EXCEPT ![c] = 1]
  /\ pc' = [pc EXCEPT ![c] = "awaiting"]
  /\ UNCHANGED <<now, samplerVars, request, response, reader_runs, returned,
                 netObs, probeObs, serviceVars>>

\* A reader is at the head of the queue for caller c: as one of the five
\* tasks, or as the whole request (schema.py awaits the reader directly).
AsTask(c, r) == ready # <<>> /\ Head(ready) = Cb("reader", c, r)
AsQuery(c, r) ==
  ready # <<>> /\ Head(ready) = Cb("call", c, "-") /\ ResolverOp(request[c]) = r
ReaderTurn(c, r) == AsTask(c, r) \/ AsQuery(c, r)

\* The reader returned `out` (or raised): the task records it and wakes the
\* parked parent; a direct query answers the request.
Deliver(c, r, out) ==
  /\ reader_runs' = [reader_runs EXCEPT ![c][r] = @ + 1]
  /\ returned' = [returned EXCEPT ![c][r] = out.val]
  /\ IF AsTask(c, r)
     THEN /\ task' = [task EXCEPT ![c][r] =
                        [st |-> IF out.raised THEN "raised" ELSE "done", val |-> out.val]]
          /\ ready' = IF pc[c] = "awaiting" /\ awaited[c] = Index(r)
                      THEN Append(Tail(ready), Cb("wake", c, "-"))
                      ELSE Tail(ready)
          /\ UNCHANGED <<pc, response>>
     ELSE /\ response' = [response EXCEPT ![c] = out.val]
          /\ pc' = [pc EXCEPT ![c] = IF out.raised THEN "raised" ELSE "done"]
          /\ ready' = Tail(ready)
          /\ UNCHANGED task
  /\ UNCHANGED <<now, static_cache, request, timestamp, awaited, all_runs,
                 cacheObs, probeObs, serviceVars>>

CpuReader(c) ==
  /\ ReaderTurn(c, "cpu")
  /\ \E os \in CpuEnvs : Deliver(c, "cpu", Ok(collect_cpu_metrics(static_cache, os)))
  /\ UNCHANGED <<samplerVars, netObs>>

GpuReader(c) ==
  /\ ReaderTurn(c, "gpu")
  /\ \E hw \in GpuEnvs : Deliver(c, "gpu", Ok(collect_gpu_metrics(static_cache, hw)))
  /\ UNCHANGED <<samplerVars, netObs>>

MemoryReader(c) ==
  /\ ReaderTurn(c, "memory")
  /\ \E os \in MemEnvs :
       Deliver(c, "memory", collect_memory_metrics(static_cache, os.vm, os.disk))
  /\ UNCHANGED <<samplerVars, netObs>>

SystemReader_stamps_sampler(c) ==
  /\ ReaderTurn(c, "system")
  /\ \E os \in SysEnvs : Deliver(c, "system", collect_system_metrics(static_cache, os, now))
  /\ previous_time' = now + 1
  /\ UNCHANGED <<previous_network_stats, netObs>>
SystemReader(c) ==
  /\ ReaderTurn(c, "system")
  /\ \E os \in SysEnvs : Deliver(c, "system", collect_system_metrics(static_cache, os, now))
  /\ UNCHANGED <<samplerVars, netObs>>

\* psutil.net_io_counters raising leaves the sampler as it was.
NetworkReader(c) ==
  /\ ReaderTurn(c, "network")
  /\ \E os \in NetEnvs :
       IF os.raises
       THEN Deliver(c, "network", Raised) /\ UNCHANGED <<samplerVars, netObs>>
       ELSE NetworkCall(os.io, os.addresses) /\ Deliver(c, "network", Ok(net_result'))

TelemetryData(ts, t) ==
  [timestamp |-> ts, cpu |-> t["cpu"].val, gpu |-> t["gpu"].val,
   memory |-> t["memory"].val, network |-> t["network"].val,
   system |-> t["system"].val]

\* The awaits of lines 543-547, in order, from the one the parent is parked
\* on: the first task that has no result yet, or 0.
FirstUnfinished(c) ==
  LET open == {i \in awaited[c]..Len(Readers) : task[c][Readers[i]].st # "done"}
  IN IF open = {} THEN 0 ELSE CHOOSE i \in open : \A j \in open : i <= j

\* The parent of the five tasks runs again: it returns the TelemetryData,
\* re-raises the exception of a task, or parks on the next unfinished task.
CollectAllResume(c) ==
  /\ ready # <<>> /\ Head(ready) = Cb("wake", c, "-")
  /\ ready' = Tail(ready)
  /\ LET i == FirstUnfinished(c)
     IN IF i = 0
        THEN /\ response' = [response EXCEPT ![c] = Some(TelemetryData(timestamp[c], task[c]))]
             /\ pc' = [pc EXCEPT ![c] = "done"]
             /\ awaited' = [awaited EXCEPT ![c] = 0]
        ELSE IF task[c][Readers[i]].st = "raised"
        THEN /\ pc' = [pc EXCEPT ![c] = "raised"]
             /\ awaited' = [awaited EXCEPT ![c] = 0]
             /\ UNCHANGED response
        ELSE /\ awaited' = [awaited EXCEPT ![c] = i]
             /\ UNCHANGED <<pc, response>>
  /\ UNCHANGED <<now, samplerVars, static_cache, request, timestamp, task,
                 readerObs, cacheObs, netObs, probeObs, serviceVars>>

\* Query.health: no collector operation.
HealthQuery(c) ==
  /\ ready # <<>> /\ Head(ready) = Cb("call", c, "-")
  /\ ResolverOp(request[c]) = "none"
  /\ ready' = Tail(ready)
  /\ response' = [response EXCEPT ![c] = Some("OK")]
  /\ pc' = [pc EXCEPT ![c] = "done"]
  /\ UNCHANGED <<now, samplerVars, static_cache, request, timestamp, task, awaited,
                 readerObs, cacheObs, netObs, probeObs, serviceVars>>

ClockTick == Tick /\ UNCHANGED <<samplerVars, static_cache, loopVars, readerObs, cacheObs, netObs, probeObs, serviceVars>>

Init == now = 1 /\ NewCollector /\ ServiceIdle

Next ==
  \/ \E c \in Callers, q \in Queries : Submit(c, q)
  \/ \E c \in Callers :
       \/ EnsureCall(c)
       \/ CollectAllStart(c)
       \/ CpuReader(c)
       \/ GpuReader(c)
       \/ MemoryReader(c)
       \/ NetworkReader(c)
       \/ SystemReader(c)
       \/ CollectAllResume(c)
       \/ HealthQuery(c)
  \/ ClockTick

Spec == Init /\ [][Next]_vars

\* ------------------------------------------- the network reader on its own
NetInit == now = 1 /\ NewCollector /\ ServiceIdle

NetCall ==
  /\ netCalls < MaxNetCalls
  /\ \E io \in NetIoCounters, addresses \in NetIfAddrs : NetworkCall(io, addresses)
  /\ UNCHANGED <<now, static_cache, loopVars, readerObs, cacheObs, probeObs, serviceVars>>

NetTick == Tick /\ UNCHANGED <<samplerVars, static_cache, loopVars, readerObs, cacheObs, netObs, probeObs, serviceVars>>

NetNext == NetCall \/ NetTick
SpecNet == NetInit /\ [][NetNext]_vars

\* ----------------------------------------------- the GPU reader on its own
\* The PCI id files of card0, over catalogued, known-vendor, unknown and
\* empty ids and over each way a read can fail.
VendorFiles ==
  {TextFile("ok", v) : v \in {AMD, NVIDIA, INTEL, "0x1af4", ""}}
    \cup {TextFile(e, "") : e \in FileErrors}
DeviceFiles ==
  {TextFile("ok", d) : d \in {"0x164e", "0x1679", "0x2684", "0x2204", "0x9999", ""}}
    \cup {TextFile(e, "") : e \in FileErrors}
GpuHosts ==
  [cpuinfo : {CpuInfoRyzen}, cpu_count : {Some(16)},
   vendor : VendorFiles, device : DeviceFiles,
   vram_total : {MissingNum, NumFile("ok", TRUE, 1024 * MiB)},
   vm : {VirtualMemory(8, 4, 4)}, disk : {DiskUsage(8, 4)},
   nodename : {Str("host-a")}, release : {Str("6.8.0")},
   lsb : {LsbUbuntu}, boot : {BootOk}]

BusyOnly ==
  [temp |-> <<MissingNum, MissingNum, MissingNum>>, busy |-> NumFile("ok", TRUE, 80),
   vram_used |-> MissingNum, fan |-> <<MissingNum, MissingNum, MissingNum>>,
   sclk |-> SclkMissing]
SclkNoToken == [st |-> "ok", lines |-> <<<<"0:", "500Mhz">>, <<"*">>>>]
BrokenClockListing == [AmdGpuFiles EXCEPT !.sclk = SclkNoToken]
\* The first temperature sensor denied and the usage file not a number.
SecondSensor ==
  [AmdGpuFiles EXCEPT
     !.temp = <<NumFile("PermissionError", FALSE, 0), NumFile("ok", TRUE, 71000), MissingNum>>,
     !.busy = NumFile("ok", FALSE, 0)]
\* The fan sensor failing with an I/O error.
FanIoError == [AmdGpuFiles EXCEPT !.fan = <<NumFile("OSError", FALSE, 0), MissingNum, MissingNum>>]
GpuProbes ==
  {NoGpuFiles, AmdGpuFiles, BusyOnly, BrokenClockListing, SecondSensor, FanIoError}

GpuInit == now = 1 /\ NewCollector /\ ServiceIdle

\* The first _ensure_cache_initialized of the process.
GpuEnsure ==
  /\ ~ensured
  /\ \E host \in GpuHosts : Ensure(host)
  /\ UNCHANGED <<now, samplerVars, loopVars, readerObs, netObs, probeObs, serviceVars>>

\* A gpu query: schema.py awaits collect_gpu_metrics and nothing else.
GpuCollect ==
  /\ \E hw \in GpuProbes :
       gpu_probe' = Some([hw |-> hw, initialized |-> ensured,
                          out |-> collect_gpu_metrics(static_cache, hw)])
  /\ UNCHANGED <<now, samplerVars, static_cache, loopVars, readerObs, cacheObs,
                 netObs, mem_probe, cpu_probe, sys_probe, serviceVars>>

GpuNext == GpuEnsure \/ GpuCollect
SpecGpu == GpuInit /\ [][GpuNext]_vars

\* -------------------------------------------- the memory reader on its own
MaxUnits == 3
Units == 0..MaxUnits
\* used leaves out buffers and page cache, available counts only what can be
\* reclaimed of them: used + available <= total.
VmReads ==
  {v \in {VirtualMemory(total, available, used) :
            total \in Units \ {0}, available \in Units, used \in Units} :
     v.used + v.available <= v.total}
DiskReads ==
  {d \in {DiskUsage(total, used) : total \in Units, used \in Units} :
     d.used <= d.total}
MemHosts ==
  [cpuinfo : {CpuInfoRyzen}, cpu_count : {Some(16)},
   vendor : {TextFile("ok", AMD)}, device : {TextFile("ok", "0x164e")},
   vram_total : {MissingNum},
   vm : {VirtualMemory(MaxUnits, 1, 1), VmRaises},
   disk : {DiskUsage(MaxUnits, 1)},
   nodename : {Str("host-a")}, release : {Str("6.8.0")},
   lsb : {LsbUbuntu}, boot : {BootOk}]

MemInit == now = 1 /\ NewCollector /\ ServiceIdle

MemEnsure ==
  /\ ~ensured
  /\ \E host \in MemHosts : Ensure(host)
  /\ UNCHANGED <<now, samplerVars, loopVars, readerObs, netObs, probeObs, serviceVars>>

\* A memory query: schema.py awaits collect_memory_metrics and nothing else.
MemCollect ==
  /\ \E vm \in VmReads \cup {VmRaises}, disk \in DiskReads \cup {DiskRaises} :
       mem_probe' = Some([vm |-> vm, disk |-> disk,
                          out |-> collect_memory_metrics(static_cache, vm, disk)])
  /\ UNCHANGED <<now, samplerVars, static_cache, loopVars, readerObs, cacheObs,
                 netObs, gpu_probe, cpu_probe, sys_probe, serviceVars>>

MemNext == MemEnsure \/ MemCollect
SpecMem == MemInit /\ [][MemNext]_vars

\* ----------------------------------------------- the CPU reader on its own
CpuInfoNoModel == [st |-> "ok", model_line |-> "absent", name |-> EmptyStr]
Millideg(v) == NumFile("ok", TRUE, v)
Unparsable == NumFile("ok", FALSE, 0)
DeniedNum == NumFile("PermissionError", FALSE, 0)
BrokenNum == NumFile("OSError", FALSE, 0)
SensorFiles ==
  {NoSensors,
   <<Millideg(45000), Millideg(50000), MissingNum, MissingNum, MissingNum>>,
   <<Millideg(150000), Unparsable, DeniedNum, Millideg(60000), Millideg(61000)>>,
   <<MissingNum, Millideg(-1000), Millideg(120000), MissingNum, MissingNum>>,
   <<Millideg(0), MissingNum, MissingNum, MissingNum, MissingNum>>,
   <<MissingNum, BrokenNum, Millideg(45000), MissingNum, MissingNum>>,
   <<Unparsable, Millideg(120001), MissingNum, MissingNum, Millideg(33500)>>}
CpuProbes ==
  [psutil_raises : BOOLEAN,
   cpuinfo : {CpuInfoRyzen, CpuInfoDenied, CpuInfoNoModel},
   sensors : SensorFiles,
   percent : {0, 25}, percpu : {<<20, 30>>},
   freq : {None, Some(3400)}]

CpuInit == now = 1 /\ NewCollector /\ ServiceIdle

CpuEnsure ==
  /\ ~ensured
  /\ \E host \in StaticHosts : Ensure(host)
  /\ UNCHANGED <<now, samplerVars, loopVars, readerObs, netObs, probeObs, serviceVars>>

\* A cpu query: schema.py awaits collect_cpu_metrics and nothing else.
CpuCollect ==
  /\ \E os \in CpuProbes :
       cpu_probe' = Some([os |-> os, cached |-> static_cache.cpu_name,
                          out |-> Ok(collect_cpu_metrics(static_cache, os))])
  /\ UNCHANGED <<now, samplerVars, static_cache, loopVars, readerObs, cacheObs,
                 netObs, gpu_probe, mem_probe, sys_probe, serviceVars>>

CpuNext == CpuEnsure \/ CpuCollect
SpecCpu == CpuInit /\ [][CpuNext]_vars

\* -------------------------------------------- the system reader on its own
\* What the host shows at a system query made some time after the cache was
\* filled: another name, another kernel, another boot time, another user.
LsbFedora ==
  [st |-> "exit", returncode |-> 0,
   stdout |-> <<Str("Description:"), <<" ", "Fedora Linux 40", "\n">>>>]
LsbExitOne == [st |-> "exit", returncode |-> 1, stdout |-> <<>>]
LsbTimeout == [st |-> "TimeoutExpired", returncode |-> 0, stdout |-> <<>>]
LsbNoTab == [st |-> "exit", returncode |-> 0, stdout |-> <<Str("Description:")>>]
BootLater == [raises |-> FALSE, val |-> Rat(3, 2)]
BootRaises == [raises |-> TRUE, val |-> Zero]
SysProbes ==
  [lsb : {LsbFedora, LsbExitOne, LsbTimeout, LsbNotInstalled, LsbNoTab},
   boot : {BootLater, BootRaises},
   nodename : {Str("host-b")},
   release : {Str("6.9.1")},
   getlogin : {LoginOk, Ok(Str("bob")), Raised}]

SysInit == now = 1 /\ NewCollector /\ ServiceIdle

SysEnsure ==
  /\ ~ensured
  /\ \E host \in StaticHosts : Ensure(host)
  /\ UNCHANGED <<now, samplerVars, loopVars, readerObs, netObs, probeObs, serviceVars>>

\* A system query: schema.py awaits collect_system_metrics and nothing else.
SysCollect ==
  /\ \E os \in SysProbes :
       sys_probe' = Some([os |-> os, cache |-> static_cache, time |-> now,
                          out |-> collect_system_metrics(static_cache, os, now)])
  /\ UNCHANGED <<now, samplerVars, static_cache, loopVars, readerObs, cacheObs,
                 netObs, gpu_probe, mem_probe, cpu_probe, serviceVars>>

SysTick == Tick /\ UNCHANGED <<samplerVars, static_cache, loopVars, readerObs, cacheObs, netObs, probeObs, serviceVars>>

SysNext == SysEnsure \/ SysCollect \/ SysTick
SpecSys == SysInit /\ [][SysNext]_vars

\* ------------------------------------------------------------- console mode
\* console_mode (main.py 23-90): a collector of its own, handlers for SIGINT
\* and SIGTERM that raise KeyboardInterrupt, and an endless loop whose body
\* awaits collector.collect_all(), prints the snapshot and sleeps a second;
\* `except Exception` logs and sleeps a second, KeyboardInterrupt leaves.
MaxIterations == 24
UpTo(n, max) == IF n < max THEN n + 1 ELSE max

\* The coroutine methods of TelemetryCollector (telemetry.py 229-556).
CollectorMethods ==
  {"collect_memory_metrics", "collect_system_metrics", "collect_network_metrics",
   "collect_cpu_metrics", "collect_gpu_metrics", "collect_all_metrics"}
\* getattr(collector, name): the class defines no __getattr__.
GetAttr(name) ==
  IF name \in CollectorMethods THEN Ok(name)
  ELSE Raise(Exc("AttributeError", <<"'TelemetryCollector' object has no attribute '", name, "'">>))
ConsoleCall == "collect_all"

ConsoleInit == now = 1 /\ NewCollector /\ ServiceIdle

\* asyncio.run(console_mode(...)) up to the top of the loop.
ConsoleStart ==
  /\ console_pc = "off"
  /\ console_pc' = "loop"
  /\ UNCHANGED <<iterations, errors_logged, displayed, stop_signal>>
  /\ UNCHANGED <<collectorVars, apiVars, poll, view, loaderVars>>

\* One pass of the while body up to its sleep.  With every reader succeeding
\* a full collection is the cache initialization and the five readers run in
\* order with nothing else on the loop; only the network reader writes.
ConsoleIterate ==
  /\ console_pc = "loop"
  /\ iterations' = UpTo(iterations, MaxIterations)
  /\ IF GetAttr(ConsoleCall).raised
     THEN /\ errors_logged' = UpTo(errors_logged, MaxIterations)
          /\ UNCHANGED <<displayed, samplerVars, static_cache, cacheObs, netObs>>
     ELSE /\ \E host \in StaticHosts : Ensure(host)
          /\ \E os \in {e \in NetEnvs : ~e.raises} : NetworkCall(os.io, os.addresses)
          /\ displayed' = UpTo(displayed, MaxIterations)
          /\ UNCHANGED errors_logged
  /\ console_pc' = "sleep"
  /\ UNCHANGED <<now, loopVars, readerObs, probeObs, stop_signal>>
  /\ UNCHANGED <<apiVars, poll, view, loaderVars>>

\* await asyncio.sleep(1), on either path, then the next iteration.
ConsoleSleep ==
  /\ console_pc = "sleep"
  /\ now' = UpTo(now, MaxTime)
  /\ console_pc' = "loop"
  /\ UNCHANGED <<iterations, errors_logged, displayed, stop_signal>>
  /\ UNCHANGED <<samplerVars, static_cache, loopVars, readerObs, cacheObs, netObs, probeObs>>
  /\ UNCHANGED <<apiVars, poll, view, loaderVars>>

\* SIGINT or SIGTERM: the handler raises KeyboardInterrupt, which
\* `except Exception` does not catch.
ConsoleInterrupt ==
  /\ console_pc \in {"loop", "sleep"}
  /\ \E sig \in {"SIGINT", "SIGTERM"} : stop_signal' = sig
  /\ console_pc' = "stopped"
  /\ UNCHANGED <<iterations, errors_logged, displayed>>
  /\ UNCHANGED <<collectorVars, apiVars, poll, view, loaderVars>>

\* Time passing while the loop body runs.
ConsoleTick ==
  /\ console_pc \in {"loop", "sleep"}
  /\ Tick
  /\ UNCHANGED <<samplerVars, static_cache, loopVars, readerObs, cacheObs, netObs, probeObs, serviceVars>>

ConsoleNext ==
  ConsoleStart \/ ConsoleIterate \/ ConsoleSleep \/ ConsoleInterrupt \/ ConsoleTick
SpecConsole == ConsoleInit /\ [][ConsoleNext]_vars
\* The event loop runs a ready coroutine: the loop body and the wake-up from
\* sleep always happen; signals need not.
FairSpecConsole ==
  /\ SpecConsole
  /\ WF_vars(ConsoleStart) /\ WF_vars(ConsoleIterate) /\ WF_vars(ConsoleSleep)

\* ------------------------------------------------ the HTTP application
\* TelemetryCollector.create(): the class defines __init__ and the readers
\* and no attribute `create`, so evaluating TelemetryCollector.create raises
\* AttributeError before anything is awaited.
TelemetryCollector_create == Raised

\* get_collector: the value returned or the exception, the global as it
\* leaves it, and how many collectors it created.
get_collector(instance) ==
  IF instance = None
  THEN LET made == TelemetryCollector_create
       IN IF made.raised
          THEN [out |-> Raised, instance |-> instance, created |-> 0]
          ELSE [out |-> Ok(made.val), instance |-> Some(made.val), created |-> 1]
  ELSE [out |-> Ok(Get(instance)), instance |-> instance, created |-> 0]

\* A request reaches /graphql: its context getter is scheduled on the loop.
ApiSubmit(q) ==
  /\ api_pc[q] = "idle"
  /\ api_pc' = [api_pc EXCEPT ![q] = "scheduled"]
  /\ api_ready' = Append(api_ready, q)
  /\ UNCHANGED <<collectorVars, collector_instance, created, got, poll, view, loaderVars, consoleVars>>

\* get_context: await get_collector(), then the context for the resolvers.
GetContext(q) ==
  /\ api_ready # <<>> /\ Head(api_ready) = q
  /\ LET g == get_collector(collector_instance)
     IN /\ collector_instance' = g.instance
        /\ created' = created + g.created
        /\ got' = [got EXCEPT ![q] = Some(g.out)]
        /\ api_pc' = [api_pc EXCEPT ![q] = IF g.out.raised THEN "raised" ELSE "context"]
  /\ api_ready' = Tail(api_ready)
  /\ UNCHANGED <<collectorVars, poll, view, loaderVars, consoleVars>>

ApiInit == now = 1 /\ NewCollector /\ ServiceIdle
ApiNext == \E q \in Requests : ApiSubmit(q) \/ GetContext(q)
SpecApi == ApiInit /\ [][ApiNext]_vars

\* ------------------------------------------------------ the polling task
\* JSON values as response.json() gives them: None, dict, str, number, list.
JNull == [t |-> "null"]
JObj(f) == [t |-> "obj", fields |-> f]
JStr(x) == [t |-> "str", text |-> x]
JNum(n) == [t |-> "num", num |-> n]
JList(l) == [t |-> "list", items |-> l]
EmptyObj == JObj([k \in {} |-> JNull])

\* bool(x)
Truthy(x) ==
  CASE x.t = "null" -> FALSE
    [] x.t = "obj" -> DOMAIN x.fields # {}
    [] x.t = "str" -> x.text # ""
    [] x.t = "num" -> x.num # 0
    [] x.t = "list" -> x.items # <<>>

PyType(x) ==
  CASE x.t = "null" -> "NoneType"
    [] x.t = "obj" -> "dict"
    [] x.t = "str" -> "str"
    [] x.t = "num" -> "int"
    [] x.t = "list" -> "list"

NoGet(x) == Exc("AttributeError", <<"'", PyType(x), "' object has no attribute 'get'">>)

\* x.get(k, default): the value, or AttributeError when x is not a dict.
DictGet(x, k, default) ==
  IF x.t # "obj" THEN [raised |-> TRUE, val |-> NoGet(x)]
  ELSE Ok(IF k \in DOMAIN x.fields THEN x.fields[k] ELSE default)

\* k in x: the membership test, or TypeError when x is not a container.
In(k, x) ==
  CASE x.t = "obj" -> Ok(k \in DOMAIN x.fields)
    [] x.t = "list" -> Ok(\E i \in DOMAIN x.items : x.items[i] = JStr(k))
    [] OTHER -> [raised |-> TRUE,
                 val |-> Exc("TypeError", <<"argument of type '", PyType(x), "' is not iterable">>)]

\* x[k] with a str key: the value, or the error a list or a dict gives.
Subscript(x, k) ==
  IF x.t = "obj" /\ k \in DOMAIN x.fields THEN Ok(x.fields[k])
  ELSE [raised |-> TRUE,
        val |-> IF x.t = "obj" THEN Exc("KeyError", <<"'", k, "'">>)
                ELSE Exc("TypeError", <<"list indices must be integers or slices, not str">>)]

\* The dicts the task returns.
Outcome(status, message) ==
  [status |-> status, message |-> Some(message), hostname |-> None,
   timestamp |-> None, data_received |-> FALSE]
Success(host, ts) ==
  [status |-> "success", message |-> None, hostname |-> Some(host),
   timestamp |-> Some(ts), data_received |-> TRUE]
\* except Exception as e: {"status": "error", "message": str(e)}
Unexpected_fixed_message(e) == Outcome("error", <<"Unexpected error polling agent">>)
Unexpected(e) == Outcome("error", e.text)

\* Lines 33-65: the classification of a response.
ClassifyResponse(status_code, body) ==
  IF status_code # 200 THEN Outcome("error", <<"HTTP ", ToString(status_code)>>)
  ELSE IF body.raised THEN Unexpected(body.val)
  ELSE LET data == body.val
           errors == In("errors", data)
       IN IF errors.raised THEN Unexpected(errors.val)
          ELSE IF errors.val
          THEN LET logged == Subscript(data, "errors")
               IN IF logged.raised THEN Unexpected(logged.val)
                  ELSE Outcome("error", <<"GraphQL errors">>)
          ELSE LET d == DictGet(data, "data", EmptyObj)
               IN IF d.raised THEN Unexpected(d.val)
                  ELSE LET tel == DictGet(d.val, "telemetry", EmptyObj)
                       IN IF tel.raised THEN Unexpected(tel.val)
                          ELSE IF ~Truthy(tel.val)
                          THEN Outcome("warning", <<"No telemetry data">>)
                          ELSE LET sys == DictGet(tel.val, "system", EmptyObj)
                               IN IF sys.raised THEN Unexpected(sys.val)
                                  ELSE LET host == DictGet(sys.val, "hostname", JStr("unknown"))
                                       IN IF host.raised THEN Unexpected(host.val)
                                          ELSE Success(host.val,
                                                       DictGet(tel.val, "timestamp", JNull).val)

\* The exceptions `except httpx.TimeoutException` catches.
TimeoutException == {"TimeoutException", "ConnectTimeout", "ReadTimeout"}

\* poll_agent_telemetry.  agent.query is what get_query("basic") does,
\* agent.post what client.post does: a response, or an exception.
poll_agent_telemetry(agent) ==
  IF agent.query.raised THEN Unexpected(agent.query.val)
  ELSE IF agent.post.raised
  THEN IF agent.post.val.type \in TimeoutException
       THEN Outcome("timeout", <<"Agent offline or unreachable">>)
       ELSE Unexpected(agent.post.val)
  ELSE ClassifyResponse(agent.post.val.status_code, agent.post.val.body)

\* Agents: what the query loader and the HTTP exchange do.
BasicQuery == Ok(<<"query GetBasicTelemetry { telemetry { timestamp } }">>)
QueryLoads ==
  {BasicQuery,
   [raised |-> TRUE, val |-> Exc("Exception", <<"Unexpected error">>)],
   [raised |-> TRUE,
    val |-> Exc("FileNotFoundError", <<"Query file not found: telemetry_basic.graphql">>)]}

Field(k, values) == {k :> x : x \in values}
Optional(k, values) == {[j \in {} |-> JNull]} \cup Field(k, values)
Objects(fs, gs) == {JObj(f @@ g) : f \in fs, g \in gs}

SystemValues ==
  {JNull, EmptyObj, JObj("hostname" :> JStr("test-agent")), JObj("hostname" :> JNull)}
TelemetryValues ==
  {JNull, EmptyObj, JStr("down"), JList(<<>>)}
    \cup Objects(Optional("timestamp", {JNum(1641024000)}), Optional("system", SystemValues))
DataValues ==
  {JNull, JList(<<>>)}
    \cup Objects(Optional("telemetry", TelemetryValues), {[j \in {} |-> JNull]})
ErrorValues == {JList(<<JStr("Field not found")>>)}
Bodies ==
  {[raised |-> TRUE, val |-> Exc("JSONDecodeError", <<"Expecting value: line 1 column 1 (char 0)">>)]}
    \cup {Ok(b) : b \in {JNull, JNum(0), JList(<<>>), JList(<<JStr("errors")>>)}}
    \cup {Ok(b) : b \in Objects(Optional("errors", ErrorValues), Optional("data", DataValues))}
StatusCodes == {200, 404, 500, 503}
Exchanges ==
  {[raised |-> TRUE, val |-> Exc(t, <<"Request timeout">>)] : t \in TimeoutException}
    \cup {[raised |-> TRUE, val |-> Exc("ConnectError", <<"Connection failed">>)]}
    \cup {Ok([status_code |-> c, body |-> b]) : c \in StatusCodes, b \in Bodies}
Agents == [query : QueryLoads, post : Exchanges]

\* One run of the task against an agent.
Poll ==
  /\ \E agent \in Agents :
       poll' = Some([agent |-> agent, result |-> poll_agent_telemetry(agent)])
  /\ UNCHANGED <<collectorVars, apiVars, view, loaderVars, consoleVars>>

PollInit == now = 1 /\ NewCollector /\ ServiceIdle
PollNext == Poll
SpecPoll == PollInit /\ [][PollNext]_vars

\* ------------------------------------------------- the telemetry endpoint
\* len(x): the number of entries, or TypeError when x has no length.
PyLen(x) ==
  CASE x.t = "obj" -> Ok(Cardinality(DOMAIN x.fields))
    [] x.t = "list" -> Ok(Len(x.items))
    [] OTHER -> [raised |-> TRUE,
                 val |-> Exc("TypeError", <<"object of type '", PyType(x), "' has no len()">>)]

required_fields == <<"timestamp", "hostname", "metrics">>
HTTP_400_BAD_REQUEST == 400
HTTP_201_CREATED == 201
Response(body, status) == Ok([status_code |-> status, body |-> body])

\* Lines 45-53: the answer to a payload that passed the loop.
Received(data) ==
  LET hostname == DictGet(data, "hostname", JNull)
      stamp == DictGet(data, "timestamp", JNull)
      metrics == DictGet(data, "metrics", EmptyObj)
  IN IF hostname.raised THEN Raise(hostname.val)
     ELSE IF stamp.raised THEN Raise(stamp.val)
     ELSE IF metrics.raised THEN Raise(metrics.val)
     ELSE LET count == PyLen(metrics.val)
          IN IF count.raised THEN Raise(count.val)
             ELSE Response([status |-> "received", hostname |-> hostname.val,
                            timestamp |-> stamp.val, metrics_count |-> count.val],
                           HTTP_201_CREATED)

\* Lines 37-43, from the i-th required field on.
RECURSIVE CheckFields(_, _)
CheckFields(data, i) ==
  IF i > Len(required_fields) THEN Received(data)
  ELSE LET present == In(required_fields[i], data)
       IN IF present.raised THEN Raise(present.val)
          ELSE IF ~present.val
          THEN Response([error |-> <<"Missing required field: ", required_fields[i]>>],
                        HTTP_400_BAD_REQUEST)
          ELSE CheckFields(data, i + 1)

\* receive_telemetry, on request.data.
receive_telemetry(data) == CheckFields(data, 1)

\* Payloads: JSON objects with each field absent or of some JSON type, and
\* two JSON lists.
TimestampValues == {JStr("2025-01-09T15:30:00Z"), JNum(1641024000), JNull}
HostnameValues == {JStr("test-agent"), JNull}
Metric == JObj("usage" :> JNum(25))
MetricsValues ==
  {JNull, JNum(3), JList(<<>>), JList(<<Metric, Metric>>), EmptyObj,
   JObj("cpu" :> Metric),
   JObj("cpu" :> Metric @@ "memory" :> Metric),
   JObj("cpu" :> Metric @@ "memory" :> Metric @@ "disk" :> Metric)}
Payloads ==
  {JObj(t @@ h @@ m) : t \in Optional("timestamp", TimestampValues),
                       h \in Optional("hostname", HostnameValues),
                       m \in Optional("metrics", MetricsValues)}
    \cup {JList(<<>>), JList(<<JStr("timestamp"), JStr("hostname"), JStr("metrics")>>)}

\* One POST to the endpoint.
Post ==
  /\ \E data \in Payloads :
       view' = Some([data |-> data, response |-> receive_telemetry(data)])
  /\ UNCHANGED <<collectorVars, apiVars, poll, loaderVars, consoleVars>>

ViewInit == now = 1 /\ NewCollector /\ ServiceIdle
ViewNext == Post
SpecView == ViewInit /\ [][ViewNext]_vars

\* ------------------------------------------------------ the query loader
MaxReloads == 2
\* What a query file can be: absent or as installed, and for the basic
\* query also edited, unreadable, or not UTF-8.
EditedText(f) == <<" ", "query ", f, " { timestamp }">>
FileStates(f) ==
  {NoFile, TextFile("ok", QueryText(f))}
    \cup IF f = QUERY_TYPES["basic"]
         THEN {TextFile("ok", EditedText(f)), TextFile("PermissionError", EmptyStr),
               TextFile("UnicodeDecodeError", EmptyStr)}
         ELSE {}
\* The orders a directory may list its entries in: two of them.
Reverse(o) == [i \in 1..Len(o) |-> o[Len(o) + 1 - i]]
DirOrders == {InstalledOrder, Reverse(InstalledOrder)}

\* What a caller may pass as query_type; None is the call without argument.
QueryTypeArgs == {None} \cup {Some(t) : t \in DOMAIN QUERY_TYPES \cup {"nonexistent"}}

\* get_query(query_type), or get_query().
GetQuery ==
  /\ \E arg \in QueryTypeArgs :
       lookup' = Some([arg |-> arg,
                       out |-> get_query(_QUERIES_CACHE,
                                         IF arg = None THEN "basic" ELSE Get(arg))])
  /\ UNCHANGED <<collectorVars, apiVars, poll, view, consoleVars>>
  /\ UNCHANGED <<queries_dir, dir_order, query_files, _QUERIES_CACHE, loaded, reloads>>

\* reload_queries: clear, then load.
ReloadQueries ==
  /\ reloads < MaxReloads
  /\ _QUERIES_CACHE' =
       _load_all_queries(queries_dir, dir_order, query_files, EmptyQueries).cache
  /\ loaded' = [dir |-> queries_dir, order |-> dir_order, files |-> query_files]
  /\ reloads' = reloads + 1
  /\ UNCHANGED <<collectorVars, apiVars, poll, view, consoleVars>>
  /\ UNCHANGED <<queries_dir, dir_order, query_files, lookup>>

\* Somebody changes a file of the directory; creating or removing one may
\* change the order of the listing.
EditFile ==
  /\ \E f \in Stems : \E file \in FileStates(f) :
       /\ file # query_files[f]
       /\ query_files' = [query_files EXCEPT ![f] = file]
       /\ IF NoFile \in {file, query_files[f]}
          THEN dir_order' \in DirOrders
          ELSE dir_order' = dir_order
  /\ UNCHANGED <<collectorVars, apiVars, poll, view, consoleVars>>
  /\ UNCHANGED <<queries_dir, _QUERIES_CACHE, lookup, loaded, reloads>>

\* Somebody removes the directory, or puts it back.
MoveDir ==
  /\ queries_dir' = ~queries_dir
  /\ UNCHANGED <<collectorVars, apiVars, poll, view, consoleVars>>
  /\ UNCHANGED <<dir_order, query_files, _QUERIES_CACHE, lookup, loaded, reloads>>

\* The import succeeded, whatever the directory held.
LoaderInit ==
  /\ now = 1 /\ NewCollector /\ AppIdle /\ ConsoleOff
  /\ \E files \in [Stems -> UNION {FileStates(f) : f \in Stems}] :
       /\ \A f \in Stems : files[f] \in FileStates(f)
       /\ \E order \in DirOrders : Imported(TRUE, order, files)
LoaderNext == GetQuery \/ ReloadQueries \/ EditFile \/ MoveDir
SpecLoader == LoaderInit /\ [][LoaderNext]_vars

\* ================================================================== claims
\* The reading of interface n in the dict io.
Reading(io, n) == io[CHOOSE i \in 1..Len(io) : io[i].name = n]
EntriesFor(result, n) == {i \in 1..Len(result) : result[i].interface = n}

\* C1: over any sequence of collect_network_metrics calls, an interface with
\* a stored previous sample and elapsed > 0 since the previous call gets
\* speed = (current - previous) / elapsed in both directions; an interface
\* with no stored previous sample gets rate 0 in both directions.
C1_RateFromPreviousSample ==
  [][netCalls' = netCalls + 1 =>
       \A i \in 1..Len(net_result') :
         LET m == net_result'[i]
             n == m.interface
             cur == Reading(net_stats', n)
             stored == n \in DOMAIN previous_network_stats
             elapsed == IF net_call_time = None THEN 0 ELSE now - Get(net_call_time)
         IN /\ (stored /\ elapsed > 0) =>
                 /\ RatEq(m.speed_upload,
                          Rat(cur.bytes_sent - previous_network_stats[n].bytes_sent, elapsed))
                 /\ RatEq(m.speed_download,
                          Rat(cur.bytes_recv - previous_network_stats[n].bytes_recv, elapsed))
            /\ ~stored => m.speed_upload.num = 0 /\ m.speed_download.num = 0]_vars

\* C1 witness: a later call computed a rising upload and a falling download
\* rate for some interface.
C1_Witness ==
  /\ netCalls >= 2
  /\ \E i \in 1..Len(net_result) :
       net_result[i].speed_upload.num > 0 /\ net_result[i].speed_download.num < 0

\* C6: the returned list has no entry for "lo" and exactly one entry for
\* every other interface the OS reported (and none for anything else).
C6_NoLoopbackOneEntryEach ==
  /\ \A i \in 1..Len(net_result) : net_result[i].interface # "lo"
  /\ \A i \in 1..Len(net_result) : net_result[i].interface \in NamesOf(net_stats)
  /\ \A n \in NamesOf(net_stats) \ {"lo"} : Cardinality(EntriesFor(net_result, n)) = 1

\* C6 witness: the OS reported lo and two more interfaces, two entries came back.
C6_Witness ==
  /\ netCalls >= 1
  /\ "lo" \in NamesOf(net_stats)
  /\ Len(net_stats) = 3
  /\ Len(net_result) = 2

\* -------------------------------------------------- static cache (C2 - C5)
\* What each fact's own resolver makes of the host, and whether it failed.
OwnFailed(k, host) ==
  CASE k = "total_ram" -> host.vm.raises
    [] k = "total_disk" -> host.disk.raises
    [] k = "os_name" -> _get_os_name(host.lsb).raised
    [] k = "boot_time" -> host.boot.raises
    [] OTHER -> FALSE

OwnValue(k, host) ==
  CASE k = "cpu_name" -> Some(_get_cpu_name_static(host.cpuinfo))
    [] k = "cpu_core_count" -> host.cpu_count
    [] k = "gpu_name" -> Some(_get_gpu_name_from_device_ids(host.vendor, host.device))
    [] k = "gpu_total_vram" -> Some(_get_gpu_total_vram(host.vram_total))
    [] k = "total_ram" -> Some(host.vm.total)
    [] k = "total_disk" -> Some(host.disk.total)
    [] k = "hostname" -> Some(host.nodename)
    [] k = "os_name" -> Some(_get_os_name(host.lsb).val)
    [] k = "kernel_version" -> Some(host.release)
    [] k = "boot_time" -> Some(host.boot.val)

FullyPopulated == \A k \in CacheKeys : static_cache[k] # None
Finished(c) == pc[c] \in {"done", "raised"}

\* C2: when the first initialization ran with another one already scheduled
\* behind it, every static-fact resolver is invoked exactly once in total
\* and no full collection reaches its readers over a partly filled cache.
C2_ResolvedOnceNoPartialCache ==
  raced =>
    /\ \A r \in Resolvers : calls[r] = 1
    /\ \A c \in Callers :
         (request[c] = "telemetry" /\ pc[c] = "awaiting") => FullyPopulated

\* C2, the part that the event loop gives: no resolver runs twice.
C2_NoDoubleResolution == \A r \in Resolvers : calls[r] <= 1

\* C2 witness: two initializing requests raced and both have finished.
C2_Witness ==
  /\ raced
  /\ \A c \in Callers : request[c] \in {"ensure", "telemetry"} /\ Finished(c)

\* C3: once one _ensure_cache_initialized call has completed, no later step
\* invokes a static-fact resolver or changes an entry of the static cache.
C3_LaterEnsureIsNoOp ==
  [][ensured => (calls' = calls /\ static_cache' = static_cache)]_vars

\* C3 witness: two _ensure_cache_initialized calls have completed, one after
\* the other.
C3_Witness ==
  /\ ensured
  /\ \A c \in Callers : request[c] = "ensure" /\ pc[c] = "done"

\* C4: after initialization has returned, every fact whose own resolver did
\* not fail holds its resolved value, only a failing fact is left at its
\* default, and the full resolution ran once.
C4_FailureDoesNotAbortOthers ==
  (ensured /\ seen # None) =>
    /\ \A k \in CacheKeys :
         IF OwnFailed(k, Get(seen)) THEN static_cache[k] = None
         ELSE static_cache[k] = OwnValue(k, Get(seen))
    /\ calls["cpu_name"] = 1

\* C4 witness: initialization met a host without lsb_release and returned.
C4_Witness ==
  /\ ensured /\ seen # None
  /\ Get(seen).lsb = LsbNotInstalled
  /\ static_cache.kernel_version = None

\* C5: a populated entry of the static cache keeps its value in every step.
C5_PopulatedEntryNeverChanges ==
  [][\A k \in CacheKeys :
       static_cache[k] # None => static_cache'[k] = static_cache[k]]_vars

\* C5 witness: the cache is populated and a full collection and a second
\* request have finished on top of it.
C5_Witness ==
  /\ static_cache.cpu_name # None
  /\ \E c \in Callers : request[c] = "telemetry" /\ Finished(c)
  /\ \A c \in Callers : Finished(c)

\* ------------------------------------------------- full collection (C10)
\* C10: a finished collect_all_metrics call has run each of the five readers
\* exactly once and returned a TelemetryData made of exactly the five values
\* the readers returned, with timestamp > 0.
C10_SnapshotOfTheFiveReaders ==
  \A c \in Callers :
    (request[c] = "telemetry" /\ Finished(c)) =>
      /\ \A r \in ReaderSet : reader_runs[c][r] = 1
      /\ response[c] # None
      /\ \A r \in ReaderSet : Get(response[c])[r] = returned[c][r]
      /\ Get(response[c]).timestamp > 0

\* C10, for the calls in which no reader raised.
C10_WhenNoReaderRaises ==
  \A c \in Callers :
    (request[c] = "telemetry" /\ pc[c] = "done") =>
      /\ \A r \in ReaderSet : reader_runs[c][r] = 1
      /\ response[c] # None
      /\ \A r \in ReaderSet : Get(response[c])[r] = returned[c][r]
      /\ Get(response[c]).timestamp > 0

\* C10 witness: a full collection ended with the exception of a reader.
C10_Witness ==
  \E c \in Callers : request[c] = "telemetry" /\ pc[c] = "raised"

\* ------------------------------------------------- memory percentages (C7)
\* C7: in every MemoryMetrics returned, ram_percent = ram_used / ram_total
\* x 100 and disk_percent = disk_used / disk_total x 100 for the pair in
\* that same result, with cached or live totals.
C7_PercentOfReturnedPair ==
  (mem_probe # None /\ ~Get(mem_probe).out.raised) =>
    LET m == Get(mem_probe).out.val
    IN /\ RatEq(m.ram_percent, Percent(m.ram_used, m.ram_total))
       /\ RatEq(m.disk_percent, Percent(m.disk_used, m.disk_total))

\* C7, the disk half.
C7_DiskPercentOfReturnedPair ==
  (mem_probe # None /\ ~Get(mem_probe).out.raised) =>
    LET m == Get(mem_probe).out.val
    IN RatEq(m.disk_percent, Percent(m.disk_used, m.disk_total))

\* C7 witness: a result over totals that agree with the live read, in which
\* RAM is partly used and part of the rest is not available.
C7_Witness ==
  /\ mem_probe # None /\ ~Get(mem_probe).out.raised
  /\ LET p == Get(mem_probe)
         m == p.out.val
     IN /\ m.ram_total = p.vm.total /\ m.disk_total = p.disk.total
        /\ m.ram_used > 0 /\ m.ram_used < m.ram_total
        /\ ~RatEq(p.vm.percent, Percent(p.vm.used, p.vm.total))

\* ------------------------------------------------------- GPU name (C8, C9)
Unreadable(file) == file.st # "ok" \/ file.text = ""
Catalogued(v, d) ==
  \/ v = "0x1002" /\ d \in DOMAIN AMD_DEVICES
  \/ v = "0x10de" /\ d \in DOMAIN NVIDIA_DEVICES
VendorName(v) ==
  IF v = "0x1002" THEN <<"AMD">>
  ELSE IF v = "0x10de" THEN <<"NVIDIA">>
  ELSE IF v = "0x8086" THEN <<"INTEL">>
  ELSE <<"Unknown Vendor (", v, ")">>
BestEffortName(v, d) == VendorName(v) \o <<" GPU (Device: ", d, ")">>

\* C8: the name resolved from the two id files is "<Vendor> <Device name>"
\* for a catalogued device of AMD or NVIDIA, "<vendor name> GPU (Device:
\* <id>)" for two readable ids outside the catalog, with "Unknown Vendor
\* (<id>)" for an unknown vendor, and "Unknown GPU" when an id could not be
\* read.
C8_GpuNameLookup ==
  (ensured /\ seen # None) =>
    LET vf == Get(seen).vendor
        df == Get(seen).device
        name == Get(static_cache.gpu_name)
    IN /\ (Unreadable(vf) \/ Unreadable(df)) => name = <<"Unknown GPU">>
       /\ (~Unreadable(vf) /\ ~Unreadable(df)) =>
            /\ (vf.text = "0x1002" /\ df.text \in DOMAIN AMD_DEVICES) =>
                 name = <<"AMD", " ", AMD_DEVICES[df.text]>>
            /\ (vf.text = "0x10de" /\ df.text \in DOMAIN NVIDIA_DEVICES) =>
                 name = <<"NVIDIA", " ", NVIDIA_DEVICES[df.text]>>
            /\ ~Catalogued(vf.text, df.text) => name = BestEffortName(vf.text, df.text)

\* C8 witness: an unknown vendor with a readable device id was resolved.
C8_Witness ==
  /\ ensured /\ seen # None
  /\ Get(seen).vendor = TextFile("ok", "0x1af4")
  /\ Get(seen).device = TextFile("ok", "0x9999")
  /\ static_cache.gpu_name = Some(<<"Unknown Vendor (", "0x1af4", ")", " GPU (Device: ", "0x9999", ")">>)

\* C9: collect_gpu_metrics returns None when the vendor/device id files are
\* unreadable, and a GPU value named "<Vendor> GPU (Device: <id>)" when the
\* ids resolve outside the catalog, whatever dynamic fields can be read.
C9_AbsentOrBestEffort ==
  (gpu_probe # None /\ Get(gpu_probe).initialized /\ seen # None) =>
    LET vf == Get(seen).vendor
        df == Get(seen).device
        out == Get(gpu_probe).out
    IN /\ (vf.st # "ok" \/ df.st # "ok") => out = None
       /\ (~Unreadable(vf) /\ ~Unreadable(df) /\ ~Catalogued(vf.text, df.text)) =>
            /\ out # None
            /\ Get(out).name = Some(BestEffortName(vf.text, df.text))

\* C9 witness: both ids resolved outside the catalog, no dynamic field could
\* be read, and the reader returned None.
C9_Witness ==
  /\ gpu_probe # None /\ Get(gpu_probe).initialized /\ seen # None
  /\ Get(seen).vendor = TextFile("ok", INTEL)
  /\ Get(seen).device = TextFile("ok", "0x9999")
  /\ Get(gpu_probe).hw = NoGpuFiles
  /\ Get(gpu_probe).out = None

\* ------------------------------------------------ reader failures (C11)
\* C11: collect_all_metrics always returns a snapshot: an unexpected error in
\* the source of one reader leaves that reader at its default or absent
\* result, the other four results as they are, and no exception leaves
\* collect_all_metrics.
C11_AlwaysReturnsASnapshot ==
  \A c \in Callers :
    request[c] = "telemetry" =>
      /\ pc[c] # "raised"
      /\ \A r \in ReaderSet : task[c][r].st # "raised"

\* C11 witness: os.getlogin() raised in the system reader of a collection
\* whose other four readers returned, and the collection ended with the
\* exception.
C11_Witness ==
  \E c \in Callers :
    /\ request[c] = "telemetry" /\ pc[c] = "raised"
    /\ task[c]["system"].st = "raised"
    /\ \A r \in ReaderSet \ {"system"} : task[c][r].st = "done"

C13_QueryRunsOnlyWhatItNames ==
  \A c \in Callers :
    /\ request[c] \in ReaderSet =>
         /\ all_runs[c] = 0 /\ timestamp[c] = 0
         /\ \A r \in ReaderSet :
              reader_runs[c][r] = IF r = request[c] /\ Finished(c) THEN 1 ELSE 0
    /\ request[c] = "telemetry" =>
         all_runs[c] = IF pc[c] \in {"awaiting", "done", "raised"} THEN 1 ELSE 0
    /\ request[c] = "health" =>
         /\ all_runs[c] = 0 /\ timestamp[c] = 0
         /\ \A r \in ReaderSet : reader_runs[c][r] = 0
         /\ Finished(c) => response[c] = Some("OK")

\* C13 witness: a query naming cpu and memory has been answered by one run
\* of each of the two readers.
C13_Witness ==
  /\ request[1] = "cpu" /\ request[2] = "memory"
  /\ pc[1] = "done" /\ pc[2] = "done"
  /\ reader_runs[1]["cpu"] = 1 /\ reader_runs[2]["memory"] = 1

\* ------------------------------------------------ global collector (C14)
\* C14: get_collector creates the collector on the first request and hands
\* the same instance to every later one: at most one collector is ever
\* created, and every request that has been through get_collector, the
\* first included, holds that one usable collector.
C14_OneLazyCollector ==
  /\ created <= 1
  /\ \A q \in Requests :
       got[q] # None =>
         /\ ~Get(got[q]).raised
         /\ created = 1
         /\ Some(Get(got[q]).val) = collector_instance

\* C14 witness: the first request to arrive failed in get_collector and no
\* collector exists.
C14_Witness ==
  /\ \E q \in Requests : api_pc[q] = "raised" /\ got[q] = Some(Raised)
  /\ created = 0 /\ collector_instance = None

\* ---- C15
Polled == poll # None
\* The exception the agent makes the task meet first, if it makes any.
AgentRaises(a) ==
  \/ a.query.raised
  \/ a.post.raised
  \/ a.post.val.status_code = 200 /\ a.post.val.body.raised
AgentException(a) ==
  IF a.query.raised THEN a.query.val
  ELSE IF a.post.raised THEN a.post.val
  ELSE a.post.val.body.val
IsTimeout(a) == ~a.query.raised /\ a.post.raised /\ a.post.val.type \in TimeoutException

\* C15: poll_agent_telemetry never raises: whatever the agent does (any HTTP
\* status, any JSON body shape, a timeout, a connection error, a failure while
\* loading the query) it returns a result whose status is one of success,
\* warning, error, timeout; a timeout gives status timeout, and every other
\* exception gives status error with the exception text as message.
C15_PollNeverRaises ==
  Polled =>
    LET a == Get(poll).agent
        r == Get(poll).result
    IN /\ r.status \in {"success", "warning", "error", "timeout"}
       /\ IsTimeout(a) => r.status = "timeout"
       /\ AgentRaises(a) /\ ~IsTimeout(a) =>
            r.status = "error" /\ r.message = Some(AgentException(a).text)

\* The task has met a connection error, and a body that is no JSON, and has
\* answered with their texts.
C15_Witness ==
  /\ Polled
  /\ ~Get(poll).agent.query.raised
  /\ \/ /\ Get(poll).agent.post.raised
        /\ Get(poll).agent.post.val.type = "ConnectError"
        /\ Get(poll).result.message = Some(<<"Connection failed">>)
     \/ /\ ~Get(poll).agent.post.raised
        /\ Get(poll).agent.post.val.status_code = 200
        /\ Get(poll).agent.post.val.body.raised
        /\ Get(poll).result.status = "error"

\* ---- C16
\* A completed exchange: the query was loaded and the agent answered with a
\* JSON object.
Completed(a) ==
  /\ ~a.query.raised
  /\ ~a.post.raised
  /\ ~a.post.val.body.raised
  /\ a.post.val.body.val.t = "obj"
BodyOf(a) == a.post.val.body.val
HasKey(x, k) == x.t = "obj" /\ k \in DOMAIN x.fields
\* The body's data, where it is absent, null or an object.
PlainData(a) ==
  \/ ~HasKey(BodyOf(a), "data")
  \/ BodyOf(a).fields["data"].t \in {"null", "obj"}
TelemetryPresent(a) ==
  /\ HasKey(BodyOf(a), "data")
  /\ HasKey(BodyOf(a).fields["data"], "telemetry")
TelemetryOf(a) == BodyOf(a).fields["data"].fields["telemetry"]
NoTelemetry(a) ==
  \/ ~TelemetryPresent(a)
  \/ TelemetryOf(a) \in {JNull, EmptyObj}
SomeTelemetry(a) ==
  /\ TelemetryPresent(a)
  /\ TelemetryOf(a).t = "obj"
  /\ TelemetryOf(a) # EmptyObj
  /\ HasKey(TelemetryOf(a), "system") => TelemetryOf(a).fields["system"].t \in {"null", "obj"}
HostnameOf(tel) ==
  IF HasKey(tel, "system") /\ HasKey(tel.fields["system"], "hostname")
  THEN tel.fields["system"].fields["hostname"]
  ELSE JStr("unknown")
TimestampOf(tel) == IF HasKey(tel, "timestamp") THEN tel.fields["timestamp"] ELSE JNull

\* C16: a completed HTTP exchange is classified so: a status other than 200
\* gives error "HTTP <code>"; status 200 with an "errors" key in the body
\* gives error "GraphQL errors", telemetry present or not; status 200 without
\* errors and with a missing, null or empty telemetry object gives warning
\* "No telemetry data"; status 200 without errors and with a non-empty
\* telemetry object gives success with data_received true, the hostname of
\* telemetry.system ("unknown" when absent) and the timestamp of telemetry.
C16_Classification ==
  Polled /\ Completed(Get(poll).agent) /\ PlainData(Get(poll).agent) =>
    LET a == Get(poll).agent
        r == Get(poll).result
        code == a.post.val.status_code
    IN /\ code # 200 => r = Outcome("error", <<"HTTP ", ToString(code)>>)
       /\ code = 200 /\ HasKey(BodyOf(a), "errors") =>
            r = Outcome("error", <<"GraphQL errors">>)
       /\ code = 200 /\ ~HasKey(BodyOf(a), "errors") /\ NoTelemetry(a) =>
            r = Outcome("warning", <<"No telemetry data">>)
       /\ code = 200 /\ ~HasKey(BodyOf(a), "errors") /\ SomeTelemetry(a) =>
            r = Success(HostnameOf(TelemetryOf(a)), TimestampOf(TelemetryOf(a)))

\* A 200 answer without errors whose telemetry has no system has been
\* classified as a success from the host "unknown".
C16_Witness ==
  /\ Polled
  /\ Completed(Get(poll).agent)
  /\ Get(poll).agent.post.val.status_code = 200
  /\ ~HasKey(BodyOf(Get(poll).agent), "errors")
  /\ SomeTelemetry(Get(poll).agent)
  /\ ~HasKey(TelemetryOf(Get(poll).agent), "system")
  /\ Get(poll).result.status = "success"
  /\ Get(poll).result.hostname = Some(JStr("unknown"))

\* ---- C17
Posted == view # None
PayloadOf == Get(view).data
FirstMissing(data) ==
  IF ~HasKey(data, "timestamp") THEN "timestamp"
  ELSE IF ~HasKey(data, "hostname") THEN "hostname"
  ELSE "metrics"
Complete(data) == \A f \in {"timestamp", "hostname", "metrics"} : HasKey(data, f)
\* The number of entries of a metrics value that has entries to count.
Entries(m) == IF m.t = "obj" THEN Cardinality(DOMAIN m.fields) ELSE Len(m.items)

\* C17: receive_telemetry answers 400 with an error naming the first missing
\* field, in the order timestamp, hostname, metrics, whenever one of them is
\* absent from the payload; otherwise it answers 201 with status "received",
\* the payload's hostname and timestamp, and metrics_count equal to the
\* number of entries in metrics.
C17_ValidatesThenAcknowledges ==
  Posted /\ PayloadOf.t = "obj" =>
    LET data == PayloadOf
        r == Get(view).response
    IN IF ~Complete(data)
       THEN /\ ~r.raised
            /\ r.val.status_code = 400
            /\ r.val.body = [error |-> <<"Missing required field: ", FirstMissing(data)>>]
       ELSE /\ ~r.raised
            /\ r.val.status_code = 201
            /\ r.val.body.status = "received"
            /\ r.val.body.hostname = data.fields["hostname"]
            /\ r.val.body.timestamp = data.fields["timestamp"]
            /\ data.fields["metrics"].t \in {"obj", "list"} =>
                 r.val.body.metrics_count = Entries(data.fields["metrics"])

\* A payload with three metrics has been acknowledged with metrics_count 3.
C17_Witness ==
  /\ Posted
  /\ PayloadOf.t = "obj"
  /\ Complete(PayloadOf)
  /\ PayloadOf.fields["metrics"].t = "obj"
  /\ ~Get(view).response.raised
  /\ Get(view).response.val.status_code = 201
  /\ Get(view).response.val.body.metrics_count = 3

\* ---- C18
KnownTypes == {"basic", "extended", "health"}
Directory == [dir |-> queries_dir, order |-> dir_order, files |-> query_files]
\* The file a known type is read from, and whether the cache holds it.
FileOf(t) ==
  CASE t = "basic" -> "telemetry_basic"
    [] t = "extended" -> "telemetry_extended"
    [] t = "health" -> "health_check"
Retrievable(cache, t) == cache[FileOf(t)] # None
\* What a get_query call has to answer from a cache.
Answers(out, cache, t) ==
  IF t \notin KnownTypes THEN out.raised /\ out.val.type = "ValueError"
  ELSE IF ~Retrievable(cache, t) THEN out.raised /\ out.val.type = "FileNotFoundError"
  ELSE out = Ok(Get(cache[FileOf(t)]))

\* C18: get_query raises ValueError for a query type outside basic, extended,
\* health, raises FileNotFoundError for a known type whose file is not in the
\* cache, and otherwise returns the cached text; get_query() answers as
\* get_query("basic"); and a reload_queries over unchanged files leaves every
\* type that was retrievable retrievable, with the same text.
C18_GetQueryAndReload ==
  [][/\ lookup' # lookup =>
          LET call == Get(lookup')
          IN Answers(call.out, _QUERIES_CACHE,
                     IF call.arg = None THEN "basic" ELSE Get(call.arg))
     /\ reloads' # reloads /\ loaded = Directory =>
          \A t \in KnownTypes :
            Retrievable(_QUERIES_CACHE, t) =>
              _QUERIES_CACHE'[FileOf(t)] = _QUERIES_CACHE[FileOf(t)]]_vars

\* After a reload over unchanged files, with the extended query missing from
\* the directory, get_query() has returned the basic text.
C18_Witness ==
  /\ reloads > 0
  /\ loaded = Directory
  /\ Retrievable(_QUERIES_CACHE, "basic")
  /\ ~Retrievable(_QUERIES_CACHE, "extended")
  /\ lookup = Some([arg |-> None, out |-> Ok(Get(_QUERIES_CACHE["telemetry_basic"]))])

\* ---- C19
\* The steps of a collect_all_metrics call of caller c: it starts, one of its
\* five tasks runs its reader, it returns.
Starts(c) == all_runs'[c] # all_runs[c]
RunsReader(c, r) == task[c][r].st = "pending" /\ task'[c][r].st # "pending"
Returns(c) == request[c] = "telemetry" /\ pc[c] = "awaiting" /\ pc'[c] = "done"
AllFiveCompleted(c) == \A r \in ReaderSet : task[c][r].st = "done"

\* C19: within every collect_all_metrics call, the initialization of the
\* static cache has completed when the timestamp is captured, the one
\* timestamp is captured before any of the five readers starts, and the call
\* returns only after all five readers have completed.
C19_CacheThenTimestampThenReadersThenReturn ==
  [][\A c \in Callers :
       /\ Starts(c) =>
            /\ ensured'
            /\ timestamp'[c] = now
            /\ \A r \in ReaderSet : task'[c][r].st = "pending" /\ ~RunsReader(c, r)
       /\ \A r \in ReaderSet :
            RunsReader(c, r) =>
              pc[c] = "awaiting" /\ timestamp[c] # 0 /\ timestamp'[c] = timestamp[c]
       /\ Returns(c) =>
            /\ AllFiveCompleted(c)
            /\ response'[c] # None
            /\ Get(response'[c]).timestamp = timestamp[c]]_vars

\* A collection has returned, after its five readers, a snapshot stamped
\* before the clock moved on.
C19_Witness ==
  \E c \in Callers :
    /\ request[c] = "telemetry" /\ pc[c] = "done"
    /\ AllFiveCompleted(c)
    /\ ensured
    /\ Get(response[c]).timestamp = timestamp[c]
    /\ timestamp[c] < now

\* ---- C20
\* C20: the elapsed time of an interface's rate is the time since that
\* interface's stored counters were written: an interface that was sampled,
\* then missing from one or more calls, then present again gets
\* (current - stored) / (now - time of its last stored sample).
C20_ElapsedSinceOwnLastSample ==
  [][netCalls' = netCalls + 1 =>
       \A i \in 1..Len(net_result') :
         LET m == net_result'[i]
             n == m.interface
             cur == Reading(net_stats', n)
         IN (n \in DOMAIN previous_network_stats /\ now - stored_at[n] > 0) =>
              /\ RatEq(m.speed_upload,
                       Rat(cur.bytes_sent - previous_network_stats[n].bytes_sent,
                           now - stored_at[n]))
              /\ RatEq(m.speed_download,
                       Rat(cur.bytes_recv - previous_network_stats[n].bytes_recv,
                           now - stored_at[n]))]_vars

\* An interface was sampled in one call and missing from a later one, and
\* the clock has moved on since: the next call may find it back.
C20_Witness ==
  /\ netCalls >= 2
  /\ "eth0" \in DOMAIN stored_at
  /\ "eth0" \notin NamesOf(net_stats)
  /\ stored_at["eth0"] < Get(net_call_time)
  /\ Get(net_call_time) < now

\* ---- C21
\* C21: after every collect_network_metrics call, the stored counters of each
\* non-loopback interface the call enumerated are that call's bytes_sent and
\* bytes_recv, and the sampler's previous time is that call's sample time,
\* whether or not a rate was computed.
C21_SamplerOverwritten ==
  [][netCalls' = netCalls + 1 =>
       /\ previous_time' = now
       /\ \A n \in NamesOf(net_stats') \ {"lo"} :
            /\ n \in DOMAIN previous_network_stats'
            /\ previous_network_stats'[n].bytes_sent = Reading(net_stats', n).bytes_sent
            /\ previous_network_stats'[n].bytes_recv = Reading(net_stats', n).bytes_recv]_vars

\* Two calls within the same clock reading: the second computed no rate
\* (elapsed time 0) and the stored counters are its readings, which differ
\* in the two directions.
C21_Witness ==
  /\ netCalls = 2
  /\ now = 1
  /\ previous_time = 1
  /\ "eth0" \in NamesOf(net_stats)
  /\ previous_network_stats["eth0"] = [bytes_sent |-> 4000, bytes_recv |-> 1000]
  /\ \A i \in 1..Len(net_result) : net_result[i].speed_upload.num = 0

\* ---- C22
\* Collections that run concurrently reach the sampler one after the other:
\* collect_network_metrics has no suspension point, so each call is one
\* callback of the loop, and the concurrent collections are the sequences of
\* calls.
\* C22: the sampler suffers no lost update and no torn read: every rate a
\* call computes comes from a counter pair and a previous time that were
\* written by one and the same earlier call.
C22_RateFromOneEarlierSample ==
  [][netCalls' = netCalls + 1 =>
       \A i \in 1..Len(net_result') :
         LET n == net_result'[i].interface
         IN RateComputed(n, previous_network_stats, now - previous_time) =>
              stored_at[n] = previous_time]_vars

\* Two calls one after the other at different times: the second computed its
\* rates from the counters and the time the first one wrote.
C22_Witness ==
  /\ netCalls = 2
  /\ net_call_time = Some(2)
  /\ \E i \in 1..Len(net_result) :
       /\ net_result[i].interface = "eth0"
       /\ net_result[i].speed_upload = Rat(3000, 1)

\* ---- C23
\* What each dynamic field's own source holds, the other sources set aside:
\* a file that is missing, unreadable or unparsable gives nothing.
Usable(f) == f.st = "ok" /\ f.parses
RECURSIVE OwnTemperature(_)
OwnTemperature(files) ==
  IF files = <<>> THEN None
  ELSE IF Usable(Head(files)) /\ InRange(Head(files).val)
  THEN Some(Rat(Head(files).val, 1000))
  ELSE OwnTemperature(Tail(files))
RECURSIVE OwnFan(_)
OwnFan(files) ==
  IF files = <<>> THEN None
  ELSE IF Usable(Head(files)) THEN Some(Head(files).val)
  ELSE OwnFan(Tail(files))
RECURSIVE OwnClock(_)
OwnClock(lines) ==
  IF lines = <<>> THEN None
  ELSE IF "*" \in {Head(lines)[i] : i \in 1..Len(Head(lines))}
  THEN IF Len(Head(lines)) >= 2 THEN Some(Head(lines)[2]) ELSE None
  ELSE OwnClock(Tail(lines))
OwnFields(hw) ==
  [temperature |-> OwnTemperature(hw.temp),
   usage_percent |-> IF Usable(hw.busy) THEN Some(hw.busy.val) ELSE None,
   memory_used |-> IF Usable(hw.vram_used) THEN Some(hw.vram_used.val \div 1048576) ELSE None,
   fan_speed |-> OwnFan(hw.fan),
   clock_speed |-> IF hw.sclk.st = "ok" THEN OwnClock(hw.sclk.lines) ELSE None]
DynamicFields == {"temperature", "usage_percent", "memory_used", "fan_speed", "clock_speed"}

\* C23: in the GPU reader each dynamic field is optional on its own: a
\* missing, unreadable or unparsable source of one field (a clock listing
\* whose active line has no second token included) leaves that field absent
\* and the fields that were read in place.
C23_FieldsIndependentlyOptional ==
  gpu_probe # None =>
    LET own == OwnFields(Get(gpu_probe).hw)
        out == Get(gpu_probe).out
    IN (\E k \in DynamicFields : own[k] # None) =>
         /\ out # None
         /\ \A k \in DynamicFields : Get(out)[k] = own[k]

\* The first temperature sensor was denied and the usage file held no
\* number: the temperature of the second sensor and the other fields came
\* back, the usage absent.
C23_Witness ==
  /\ gpu_probe # None
  /\ Get(gpu_probe).hw = SecondSensor
  /\ Get(gpu_probe).out # None
  /\ Get(Get(gpu_probe).out).temperature = Some(Rat(71000, 1000))
  /\ Get(Get(gpu_probe).out).usage_percent = None
  /\ Get(Get(gpu_probe).out).fan_speed = Some(1500)

\* ---- C24
\* C24: the CPU temperature probe walks its candidate paths in list order and
\* returns the value of the first one that is readable, parses as an integer
\* and lies in 0..120 degrees after the division by 1000; a path that is
\* missing, unreadable, unparsable or out of range is passed over; with no
\* such path the result is None.
C24_FirstPlausibleSensor ==
  (cpu_probe # None /\ ~Get(cpu_probe).os.psutil_raises) =>
    Get(cpu_probe).out.val.temperature = OwnTemperature(Get(cpu_probe).os.sensors)

\* An out-of-range reading, an unparsable file and a denied file were passed
\* over, and the fourth path gave 60 degrees.
C24_Witness ==
  /\ cpu_probe # None
  /\ ~Get(cpu_probe).os.psutil_raises
  /\ Get(cpu_probe).os.sensors =
       <<Millideg(150000), Unparsable, DeniedNum, Millideg(60000), Millideg(61000)>>
  /\ Get(cpu_probe).out.val.temperature = Some(Rat(60000, 1000))

\* ---- C25
\* The CPU-info source failed: it has no model-name line, or reading it
\* raised.
CpuInfoFailed(cpuinfo) == cpuinfo.st # "ok" \/ cpuinfo.model_line = "absent"

\* C25: the CPU name resolver returns exactly "Unknown CPU" in every failure
\* case: when the CPU-info source has no model-name line and when reading it
\* raises; seen in the cache the resolver filled and in the name of a CPU
\* reading taken with an empty cache.
C25_UnknownCpuSentinel ==
  /\ (seen # None /\ CpuInfoFailed(Get(seen).cpuinfo)) =>
       static_cache.cpu_name = Some(<<"Unknown CPU">>)
  /\ (cpu_probe # None /\ ~Get(cpu_probe).os.psutil_raises
        /\ Get(cpu_probe).cached = None /\ CpuInfoFailed(Get(cpu_probe).os.cpuinfo)) =>
       Get(cpu_probe).out.val.name = <<"Unknown CPU">>

\* A CPU reading taken with an empty cache from a CPU-info source without a
\* model-name line was named "Unknown CPU".
C25_Witness ==
  /\ cpu_probe # None
  /\ ~Get(cpu_probe).os.psutil_raises
  /\ Get(cpu_probe).cached = None
  /\ Get(cpu_probe).os.cpuinfo.st = "ok"
  /\ Get(cpu_probe).os.cpuinfo.model_line = "absent"
  /\ Get(cpu_probe).out.val.name = <<"Unknown CPU">>

\* ---- C26
\* The whole seconds of time - boot, for a whole number time and a fraction
\* boot: int() cuts toward zero.
WholeSeconds(time, boot) ==
  LET d == time * boot.den - boot.num
  IN IF d >= 0 THEN d \div boot.den ELSE -((-d) \div boot.den)

\* C26: in every SystemMetrics returned, hostname, os_name, kernel_version
\* and boot_time are the cached values where the cache holds them and live
\* reads otherwise; uptime_seconds is the integer part of now - boot_time
\* for the boot_time of the same result; user is read live on every call.
C26_CachedFactsLiveUser ==
  (sys_probe # None /\ ~Get(sys_probe).out.raised) =>
    LET p == Get(sys_probe)
        m == p.out.val
    IN /\ m.hostname = IF p.cache.hostname # None THEN Get(p.cache.hostname)
                       ELSE p.os.nodename
       /\ m.kernel_version = IF p.cache.kernel_version # None
                             THEN Get(p.cache.kernel_version) ELSE p.os.release
       /\ p.cache.os_name # None => m.os_name = Get(p.cache.os_name)
       /\ (p.cache.os_name = None /\ p.os.lsb = LsbFedora) =>
            m.os_name = <<"Fedora Linux 40">>
       /\ m.boot_time = IF p.cache.boot_time # None THEN Get(p.cache.boot_time)
                        ELSE p.os.boot.val
       /\ m.uptime_seconds = WholeSeconds(p.time, m.boot_time)
       /\ m.user = p.os.getlogin.val

\* A system query after the clock moved on, over a cache that holds the
\* hostname but not the boot time: the cached hostname, the live boot time,
\* the uptime from it, and the user of the moment.
C26_Witness ==
  /\ sys_probe # None /\ ~Get(sys_probe).out.raised
  /\ Get(sys_probe).cache.hostname = Some(<<"host-a">>)
  /\ Get(sys_probe).cache.boot_time = None
  /\ Get(sys_probe).time = 3
  /\ Get(sys_probe).out.val.hostname = <<"host-a">>
  /\ Get(sys_probe).out.val.boot_time = Rat(3, 2)
  /\ Get(sys_probe).out.val.uptime_seconds = 1
  /\ Get(sys_probe).out.val.user = <<"bob">>

\* ---- C27
\* The OS-name resolution a system query ran: the cache held no os_name, so
\* line 252 called _get_os_name on what lsb_release did.
ResolvedOsName == sys_probe # None /\ Get(sys_probe).cache.os_name = None
OsNameOutcome == _get_os_name(Get(sys_probe).os.lsb)
QueryFailed(lsb) == lsb.st # "exit" \/ lsb.returncode # 0

\* C27: OS-name resolution never throws on a failed descriptor query: on a
\* timeout or a non-zero exit it returns a sentinel string, and on exit
\* code 0 it returns the trimmed text after the first tab of the output.
C27_OsNameNeverThrows ==
  ResolvedOsName =>
    LET lsb == Get(sys_probe).os.lsb
    IN /\ ~OsNameOutcome.raised
       /\ QueryFailed(lsb) => OsNameOutcome.val \in {OsSentinel, UnknownOS}
       /\ ~QueryFailed(lsb) =>
            /\ Len(lsb.stdout) >= 2
            /\ OsNameOutcome.val = Strip(lsb.stdout[2])

\* A query whose lsb_release timed out: the sentinel is the os_name of the
\* result returned.
C27_Witness ==
  /\ ResolvedOsName
  /\ Get(sys_probe).os.lsb = LsbTimeout
  /\ ~Get(sys_probe).out.raised
  /\ Get(sys_probe).out.val.os_name = OsSentinel

\* The cases that do hold: a timeout, a non-zero exit and a tab-delimited
\* description give a string.
C27_HandledOutcomes ==
  (ResolvedOsName /\ Get(sys_probe).os.lsb \in {LsbTimeout, LsbExitOne, LsbFedora, LsbUbuntu}) =>
    /\ ~OsNameOutcome.raised
    /\ Get(sys_probe).os.lsb = LsbTimeout => OsNameOutcome.val = OsSentinel
    /\ Get(sys_probe).os.lsb = LsbExitOne => OsNameOutcome.val = UnknownOS
    /\ Get(sys_probe).os.lsb = LsbFedora => OsNameOutcome.val = <<"Fedora Linux 40">>

\* ---- C28
\* The steps in which reader r ran, for any caller, as a task or as a query.
Ran(r) == \E c \in Callers : reader_runs'[c][r] = reader_runs[c][r] + 1
\* The steps in which _cache_static_data ran: a resolver was invoked.
CacheInitialization == \E r \in Resolvers : calls'[r] = calls[r] + 1

\* C28: the sampler state (previous_network_stats, previous_time) changes
\* only in a step of collect_network_metrics and the static cache only in a
\* step of cache initialization; the CPU, GPU, memory and system readers
\* leave both unchanged and the network reader leaves the cache unchanged.
C28_ReaderFrame ==
  [][ /\ samplerVars' # samplerVars => Ran("network")
      /\ static_cache' # static_cache => CacheInitialization
      /\ \A r \in ReaderSet \ {"network"} :
           Ran(r) => samplerVars' = samplerVars /\ static_cache' = static_cache
      /\ Ran("network") => static_cache' = static_cache ]_vars

\* Every kind of step has happened: the cache was initialized, the sampler
\* was moved by a network read, and a system reader ran after it over the
\* initialized cache.
C28_Witness ==
  /\ ensured /\ static_cache # EmptyCache
  /\ previous_network_stats # NoStats
  /\ \E c \in Callers : reader_runs[c]["network"] = 1 /\ reader_runs[c]["system"] = 1
  /\ \E c \in Callers : reader_runs[c]["cpu"] = 1

\* ---- C29
\* C29: console mode performs one full collection per loop iteration and
\* displays it; an exception inside an iteration is logged and followed by
\* the wait and the next iteration, so the loop ends only on an interrupt
\* signal; and where all readers succeed a snapshot is eventually displayed
\* (unless a signal ends the loop first).
C29_ConsoleEventuallyDisplays ==
  /\ [][ /\ (console_pc = "loop" /\ console_pc' = "sleep") =>
              (displayed' # displayed \/ errors_logged' # errors_logged \/ errors_logged = MaxIterations)
         /\ console_pc' = "stopped" => stop_signal' # "none" ]_vars
  /\ <>(displayed > 0 \/ console_pc = "stopped")

\* What does hold: every iteration ends in the wait and the next iteration,
\* and the loop stops only on a signal.
C29_LoopEndsOnlyOnInterrupt ==
  [][ /\ (console_pc = "loop" /\ console_pc' \notin {"loop", "stopped"}) =>
             (console_pc' = "sleep" /\ errors_logged' = UpTo(errors_logged, MaxIterations))
      /\ (console_pc = "sleep" /\ console_pc' \notin {"sleep", "stopped"}) =>
             (console_pc' = "loop" /\ now' = UpTo(now, MaxTime))
      /\ (console_pc' = "stopped" /\ console_pc # "stopped") => stop_signal' \in {"SIGINT", "SIGTERM"} ]_vars

\* Several iterations have run and each one logged an error.
C29_Witness ==
  /\ console_pc = "loop" /\ iterations = 3 /\ errors_logged = 3 /\ displayed = 0

\* ---- C30
\* C30: every GPUMetrics value returned by collect_gpu_metrics has a name and
\* a memory_total that are not absent, in every order of operations,
\* including a GPU-only query made before the static cache is initialized.
C30_GpuNameAndTotalPresent ==
  (gpu_probe # None /\ Get(gpu_probe).out # None) =>
    /\ Get(Get(gpu_probe).out).name # None
    /\ Get(Get(gpu_probe).out).memory_total # None

\* memory_total on its own is never absent: `or 24560` covers the empty cache.
C30_TotalPresent ==
  (gpu_probe # None /\ Get(gpu_probe).out # None) =>
    Get(Get(gpu_probe).out).memory_total # None

\* A GPU-only query on a collector whose cache was never initialized returned
\* a value, with the default total.
C30_Witness ==
  /\ gpu_probe # None /\ ~Get(gpu_probe).initialized
  /\ Get(gpu_probe).out # None
  /\ Get(Get(gpu_probe).out).memory_total = Some(DefaultVram)

====
